---------------------------- MODULE Spec2Model ----------------------------
(***************************************************************************)
(* A model of the analysis core of archon: the category score calculator   *)
(* and the orchestrator of app/libs/analysis_engine.py, the process        *)
(* sandbox of app/libs/utils/process_utils.py and the Ruff and Bandit      *)
(* adapters of app/libs/analyzers.                                         *)
(*                                                                         *)
(* Scores are Python floats that only ever hold whole numbers (100.0 minus *)
(* integer penalties); they are modelled as integers.  The overall score   *)
(* is a sum of products with the weights 0.4, 0.3, 0.2, 0.1; it is         *)
(* modelled in tenths of a point (overall_x10), the weights as 4, 3, 2, 1. *)
(***************************************************************************)
EXTENDS Integers, Sequences, FiniteSets, TLC

VARIABLES
    \* ---- _calculate_scores ----
    sc_pc,          \* "input" | "scored"
    issues,         \* the issue list handed to _calculate_scores
    scores,         \* the dict it returned
    permuted,       \* a rearrangement of issues
    scoresPermuted, \* the dict returned for the rearrangement
    \* ---- run_analysis ----
    ra_pc,          \* "start" | "ruff_ran" | "bandit_ran" | "returned" | "raised"
    ra_path,        \* project_path
    ra_calls,       \* the tools _run_tool was called for, in call order
    ra_ran,         \* per tool: what the subprocess did (spawn, exit code, stdout)
    ra_output,      \* per tool: the value _run_tool returned
    ra_report,      \* the report returned to the caller
    ra_raised,      \* the exception that left run_analysis, or "none"
    \* ---- run_command ----
    rc_pc,          \* "called" | "spawning" | "running" | "returned" | "raised"
    rc_args,        \* command, cwd, timeout of the call
    rc_child,       \* what the child process does once started
    rc_elapsed,     \* seconds the child has run
    rc_spawns,      \* how often subprocess.run was entered
    rc_result,      \* the (success, output_or_error) tuple returned
    \* ---- RuffAnalyzer.analyze, BanditAnalyzer.analyze ----
    ad_pc,          \* "start" | "available" | "ran" | "returned" | "raised"
    ad_tool,        \* "ruff" | "bandit"
    ad_probe,       \* what the version probe of is_tool_available did
    ad_sandbox,     \* what _run_tool_safely returned
    ad_runs,        \* how often the adapter called run_command
    ad_result,      \* the list analyze returned, or the exception that left it
    \* ---- RadonAnalyzer.analyze, JSCPDAnalyzer.analyze ----
    sa_pc,          \* "start" | "cc_done" | "mi_done" | "returned"
    sa_tool,        \* "radon" | "jscpd"
    sa_sandbox,     \* what _run_tool_safely returned, one entry per invocation
    sa_report,      \* jscpd-report.json in the output directory: absent, or its text
    sa_parts,       \* the issues each invocation contributed, one entry per invocation
    sa_result,      \* the list analyze returned
    \* ---- StructureScorer.calculate_structure_score ----
    ss_pc,          \* "input" | "scored" | "compared"
    ss_issues,      \* the issue list handed to calculate_structure_score
    ss_result,      \* the dict it returned
    ss_reference,   \* the dict it returned for the Structure issues of the list alone
    \* ---- StructureScorer._normalize_metric ----
    nm_pc,          \* "input" | "normalized"
    nm_values,      \* the values of one metric over the files
    nm_value,       \* the value to normalize
    nm_higher,      \* higher_is_worse
    nm_result,      \* the percentiles of nm_values and the risk returned
    \* ---- RuffAnalyzer._map_ruff_severity ----
    mp_pc,          \* "input" | "mapped"
    mp_adapter,     \* "libs" | "quality": app/libs/analyzers or app/analyzers/quality
    mp_codes,       \* the rule codes handed to _map_ruff_severity, one call each
    mp_result,      \* the severities it returned, in call order
    \* ---- run_project_analysis, run_full_analysis, run_mock_analysis ----
    bg_fn,          \* the background function that runs
    bg_pc,          \* the statement the run is at, or "returned" / "raised"
    bg_status,      \* analyses.status of the run's analysis row
    bg_stored,      \* whether the scores of the report are stored in the row
    bg_dir,         \* the temporary project directory: "none", "exists", "removed"
    bg_conn,        \* conn: "none", "open", "closed"
    bg_exc,         \* the step that raised last, or "none"
    \* ---- analyze_python_project_simple ----
    up_pc,          \* "input" / "analyzed"
    up_files,       \* files_metadata: the filename (its characters) and size of each file
    up_result,      \* the dict returned
    \* ---- the start_analysis requests ----
    rq_endpoint,    \* the endpoint each request was sent to
    rq_pc,          \* where each request is
    rq_response,    \* the status code each request was answered with, 0 before
    rq_analysis,    \* the id of the row each request inserted, 0 for none
    rq_busy,        \* whether an analysis was pending or running when the request arrived
    an_rows,        \* the status of each row of the analyses table of the project, by id
    an_tasks,       \* the analysis ids background tasks were created for
    \* ---- RequestLoggingMiddleware ----
    rl_production,  \* self.production_mode
    rl_time,        \* time.time(), in seconds since the middleware was built
    rl_ticks,       \* how often the clock moved
    rl_sent,        \* how many requests were dispatched
    rl_last_cleanup, \* self.last_cleanup
    rl_counts,      \* self.request_counts: client -> minute window -> count
    rl_inflight,    \* the requests passed on with call_next and not yet answered
    rl_last         \* the last request dispatch took: client, path, window, status, the counts before and after its check

scoreVars == <<sc_pc, issues, scores, permuted, scoresPermuted>>
engineVars == <<ra_pc, ra_path, ra_calls, ra_ran, ra_output, ra_report, ra_raised>>
commandVars == <<rc_pc, rc_args, rc_child, rc_elapsed, rc_spawns, rc_result>>
adapterVars == <<ad_pc, ad_tool, ad_probe, ad_sandbox, ad_runs, ad_result>>
structureVars == <<sa_pc, sa_tool, sa_sandbox, sa_report, sa_parts, sa_result>>
scorerVars == <<ss_pc, ss_issues, ss_result, ss_reference>>
normalizeVars == <<nm_pc, nm_values, nm_value, nm_higher, nm_result>>
mappingVars == <<mp_pc, mp_adapter, mp_codes, mp_result>>
backgroundVars == <<bg_fn, bg_pc, bg_status, bg_stored, bg_dir, bg_conn, bg_exc>>
uploadVars == <<up_pc, up_files, up_result>>
requestVars == <<rq_endpoint, rq_pc, rq_response, rq_analysis, rq_busy, an_rows, an_tasks>>
limiterVars == <<rl_production, rl_time, rl_ticks, rl_sent, rl_last_cleanup, rl_counts, rl_inflight, rl_last>>
serviceVars == <<backgroundVars, uploadVars, requestVars, limiterVars>>
vars == <<scoreVars, engineVars, commandVars, adapterVars, structureVars, scorerVars,
          normalizeVars, mappingVars,
                   serviceVars>>

Max(a, b) == IF a >= b THEN a ELSE b
Min(a, b) == IF a <= b THEN a ELSE b

\* The sequences over S of length at most n.
SeqsUpTo(S, n) == UNION {[1..k -> S] : k \in 0..n}

Repeat(x, n) == [i \in 1..n |-> x]

(***************************************************************************)
(* Bounds of the model.                                                    *)
(***************************************************************************)
MaxRepeat == 5
MaxTail == 1
MaxRecords == 2
MaxExit == 2
MaxTimeout == 2
MaxDuration == 3
MaxCodes == 2
MaxIssues == 3
MaxValue == 3
MaxValues == 3
MaxFiles == 12

(***************************************************************************)
(* models.py: the closed sets of categories and severities.                *)
(***************************************************************************)
IssueCategory == {"Structure", "Quality", "Security", "Dependencies"}
IssueSeverity == {"Critical", "High", "Medium", "Low"}

(***************************************************************************)
(* analysis_engine.py: the tables.                                         *)
(***************************************************************************)
SEVERITY_PENALTIES ==
    [s \in IssueSeverity |->
        CASE s = "Critical" -> 20
          [] s = "High" -> 10
          [] s = "Medium" -> 5
          [] s = "Low" -> 1]

\* The keys of the scores dict of _calculate_scores.
ScoreKeys == {"Structure", "Code Quality", "Security", "Dependencies"}

\* CATEGORY_WEIGHTS, in tenths.
CATEGORY_WEIGHTS ==
    [c \in ScoreKeys |->
        CASE c = "Structure" -> 4
          [] c = "Code Quality" -> 3
          [] c = "Security" -> 2
          [] c = "Dependencies" -> 1]

InitialScore == 100

\* SEVERITY_PENALTIES.get(severity, 0)
PenaltyOf(severity) ==
    IF severity \in DOMAIN SEVERITY_PENALTIES THEN SEVERITY_PENALTIES[severity] ELSE 0

\* A plausible slip: the penalty assigned instead of subtracted.
ApplyIssueAssign(s, issue) ==
    IF issue.category \in DOMAIN s
    THEN [s EXCEPT ![issue.category] = InitialScore - PenaltyOf(issue.severity)]
    ELSE s

\* One pass of the loop body of _calculate_scores.
ApplyIssue(s, issue) ==
    IF issue.category \in DOMAIN s
    THEN [s EXCEPT ![issue.category] = @ - PenaltyOf(issue.severity)]
    ELSE s

RECURSIVE FoldIssues(_, _, _)
FoldIssues(s, list, i) ==
    IF i > Len(list) THEN s ELSE FoldIssues(ApplyIssue(s, list[i]), list, i + 1)

\* A plausible slip: the floor left out.
ClampNone(s) == s

\* scores[category] = max(0, scores[category])
Clamp(s) == [c \in DOMAIN s |-> Max(0, s[c])]

WeightedSum(s) ==
      s["Structure"] * CATEGORY_WEIGHTS["Structure"]
    + s["Code Quality"] * CATEGORY_WEIGHTS["Code Quality"]
    + s["Security"] * CATEGORY_WEIGHTS["Security"]
    + s["Dependencies"] * CATEGORY_WEIGHTS["Dependencies"]

\* A plausible slip: the overall score taken from the scores before the floor.
CalculateScoresUnclampedOverall(list) ==
    LET raw == FoldIssues([c \in ScoreKeys |-> InitialScore], list, 1)
        clamped == Clamp(raw)
    IN  [c \in ScoreKeys \cup {"overall_x10"} |->
            IF c = "overall_x10" THEN WeightedSum(raw) ELSE clamped[c]]

\* _calculate_scores: the dict it returns, overall_score in tenths.
CalculateScores(list) ==
    LET raw == FoldIssues([c \in ScoreKeys |-> InitialScore], list, 1)
        clamped == Clamp(raw)
    IN  [c \in ScoreKeys \cup {"overall_x10"} |->
            IF c = "overall_x10" THEN WeightedSum(clamped) ELSE clamped[c]]

(***************************************************************************)
(* The inputs of _calculate_scores.  An issue is a dict; the calculator    *)
(* reads its category and severity only.  Categories cover the closed set  *)
(* of models.py and the name the engine itself uses for quality; "Info" is *)
(* a severity outside the table.                                           *)
(***************************************************************************)
InputCategories == IssueCategory \cup ScoreKeys
InputSeverities == IssueSeverity \cup {"Info"}
InputIssues == [category : InputCategories, severity : InputSeverities]

\* Up to MaxRepeat Critical issues of one category, then any short list.
InputLists ==
    {Repeat([category |-> c, severity |-> "Critical"], n) \o t :
        c \in InputCategories, n \in 0..MaxRepeat, t \in SeqsUpTo(InputIssues, MaxTail)}

NoScores == [c \in {} |-> 0]

\* The components a specification does not exercise stay as constructed.
BackgroundIdle ==
    /\ bg_fn = "none"
    /\ bg_pc = "idle"
    /\ bg_status = "pending"
    /\ bg_stored = FALSE
    /\ bg_dir = "none"
    /\ bg_conn = "none"
    /\ bg_exc = "none"

UploadIdle ==
    /\ up_pc = "idle"
    /\ up_files = <<>>
    /\ up_result = NoScores

RequestIdle ==
    /\ rq_endpoint = <<>>
    /\ rq_pc = <<>>
    /\ rq_response = <<>>
    /\ rq_analysis = <<>>
    /\ rq_busy = <<>>
    /\ an_rows = <<>>
    /\ an_tasks = <<>>

LimiterIdle ==
    /\ rl_production = FALSE
    /\ rl_time = 0
    /\ rl_ticks = 0
    /\ rl_sent = 0
    /\ rl_last_cleanup = 0
    /\ rl_counts = NoScores
    /\ rl_inflight = 0
    /\ rl_last = NoScores

ServiceIdle == BackgroundIdle /\ UploadIdle /\ RequestIdle /\ LimiterIdle

ScoreIdle ==
    /\ sc_pc = "idle"
    /\ issues = <<>>
    /\ scores = NoScores
    /\ permuted = <<>>
    /\ scoresPermuted = NoScores

EngineIdle ==
    /\ ra_pc = "idle"
    /\ ra_path = "none"
    /\ ra_calls = <<>>
    /\ ra_ran = NoScores
    /\ ra_output = NoScores
    /\ ra_report = NoScores
    /\ ra_raised = "none"

AdapterIdle ==
    /\ ad_pc = "idle"
    /\ ad_tool = "none"
    /\ ad_probe = NoScores
    /\ ad_sandbox = NoScores
    /\ ad_runs = 0
    /\ ad_result = NoScores

CommandIdle ==
    /\ rc_pc = "idle"
    /\ rc_args = NoScores
    /\ rc_child = NoScores
    /\ rc_elapsed = 0
    /\ rc_spawns = 0
    /\ rc_result = NoScores

StructureIdle ==
    /\ sa_pc = "idle"
    /\ sa_tool = "none"
    /\ sa_sandbox = <<>>
    /\ sa_report = NoScores
    /\ sa_parts = <<>>
    /\ sa_result = NoScores

ScorerIdle ==
    /\ ss_pc = "idle"
    /\ ss_issues = <<>>
    /\ ss_result = NoScores
    /\ ss_reference = NoScores
    /\ nm_pc = "idle"
    /\ nm_values = <<>>
    /\ nm_value = 0
    /\ nm_higher = TRUE
    /\ nm_result = NoScores

MappingIdle ==
    /\ mp_pc = "idle"
    /\ mp_adapter = "none"
    /\ mp_codes = <<>>
    /\ mp_result = <<>>

InitScore ==
    /\ sc_pc = "input"
    /\ issues \in InputLists
    /\ scores = NoScores
    /\ permuted = issues
    /\ scoresPermuted = NoScores
    /\ EngineIdle
    /\ CommandIdle
    /\ AdapterIdle
    /\ StructureIdle
    /\ ScorerIdle
    /\ MappingIdle
    /\ ServiceIdle

\* scores = _calculate_scores(issues)
Calculate ==
    /\ sc_pc = "input"
    /\ sc_pc' = "scored"
    /\ scores' = CalculateScores(issues)
    /\ scoresPermuted' = CalculateScores(permuted)
    /\ UNCHANGED <<issues, permuted, engineVars, commandVars, adapterVars, structureVars, scorerVars, normalizeVars, mappingVars,
                   serviceVars>>

Swap(list, i, j) ==
    [k \in 1..Len(list) |-> IF k = i THEN list[j] ELSE IF k = j THEN list[i] ELSE list[k]]

\* The caller rearranges the list, two neighbours at a time (every
\* permutation is a product of such swaps), and calls the calculator again.
Permute ==
    /\ sc_pc = "scored"
    /\ \E i \in 1..(Len(permuted) - 1) :
          /\ permuted[i] # permuted[i + 1]
          /\ permuted' = Swap(permuted, i, i + 1)
    /\ scoresPermuted' = CalculateScores(permuted')
    /\ UNCHANGED <<sc_pc, issues, scores, engineVars, commandVars, adapterVars, structureVars, scorerVars, normalizeVars, mappingVars,
                   serviceVars>>

NextScore == Calculate \/ Permute

SpecScore == InitScore /\ [][NextScore]_vars

(***************************************************************************)
(* run_analysis, the report it assembles: the score each category of       *)
(* models.py is reported under (quality_score is scores["Code Quality"]).  *)
(***************************************************************************)
CategoryScore(s, c) == IF c = "Quality" THEN s["Code Quality"] ELSE s[c]

(***************************************************************************)
(* The claims about the category score calculator.                         *)
(***************************************************************************)
\* The penalties as the specification states them.
StatedPenalty(severity) ==
    CASE severity = "Critical" -> 20
      [] severity = "High" -> 10
      [] severity = "Medium" -> 5
      [] severity = "Low" -> 1
      [] OTHER -> 0

RECURSIVE PenaltySum(_, _, _)
PenaltySum(list, c, i) ==
    IF i > Len(list) THEN 0
    ELSE (IF list[i].category = c THEN StatedPenalty(list[i].severity) ELSE 0)
         + PenaltySum(list, c, i + 1)

InClosedSets(list) ==
    \A i \in 1..Len(list) :
        list[i].category \in IssueCategory /\ list[i].severity \in IssueSeverity

\* C1: for every issue list over the closed sets of categories and severities,
\* each of the four category scores is max(0, 100 - the sum of the penalties
\* (20/10/5/1) of the issues of that category), and the empty list gives 100
\* for every category and 100 overall.
C1_CategoryPenalties ==
    (sc_pc = "scored" /\ InClosedSets(issues)) =>
        /\ \A c \in IssueCategory :
              CategoryScore(scores, c) = Max(0, 100 - PenaltySum(issues, c, 1))
        /\ issues = <<>> =>
              /\ \A c \in IssueCategory : CategoryScore(scores, c) = 100
              /\ scores["overall_x10"] = 1000

\* C2: for every issue list, each of the four category scores and the overall
\* score lie in [0, 100]; no category score is negative.
C2_ScoresInRange ==
    sc_pc = "scored" =>
        /\ \A c \in ScoreKeys : scores[c] >= 0 /\ scores[c] <= 100
        /\ scores["overall_x10"] >= 0 /\ scores["overall_x10"] <= 1000

\* The penalties of one category exceed 100 and its score was floored.
C2_Witness ==
    /\ sc_pc = "scored"
    /\ \E c \in ScoreKeys : PenaltySum(issues, c, 1) > 100 /\ scores[c] = 0

\* C3: the calculator returns identical category scores and overall score for
\* an issue list and for every rearrangement of it.
C3_OrderIndependent ==
    sc_pc = "scored" => scoresPermuted = scores

\* A rearranged list whose first and last issue differ from the original's
\* was scored.
C3_Witness ==
    /\ sc_pc = "scored"
    /\ Len(issues) >= 3
    /\ permuted[1] # issues[1]
    /\ permuted[Len(issues)] # issues[Len(issues)]
    /\ scoresPermuted # NoScores

\* C4: the overall score is 0.4*Structure + 0.3*Quality + 0.2*Security +
\* 0.1*Dependencies of the clamped category scores (here in tenths); one
\* Critical Security issue gives security 80 and overall 96.
C4_WeightedOverall ==
    sc_pc = "scored" =>
        /\ scores["overall_x10"] =
              4 * scores["Structure"] + 3 * scores["Code Quality"]
              + 2 * scores["Security"] + 1 * scores["Dependencies"]
        /\ issues = <<[category |-> "Security", severity |-> "Critical"]>> =>
              scores["Security"] = 80 /\ scores["overall_x10"] = 960

\* The corpus of one Critical Security issue was scored.
C4_Witness ==
    /\ sc_pc = "scored"
    /\ issues = <<[category |-> "Security", severity |-> "Critical"]>>
    /\ scores["Security"] = 80

(***************************************************************************)
(* JSON values, as json.loads returns them: None, a number, a str, a list, *)
(* a dict.  A dict is a function from its keys.                            *)
(***************************************************************************)
JNull == [t |-> "null"]
JNum(n) == [t |-> "num", v |-> n]
JStr(x) == [t |-> "str", v |-> x]
JList(items) == [t |-> "list", v |-> items]
JDict(f) == [t |-> "dict", v |-> f]
EmptyDict == JDict([k \in {} |-> JNull])

IsDict(x) == x.t = "dict"
HasKey(x, k) == k \in DOMAIN x.v

\* Some enumeration of a finite set as a sequence.
RECURSIVE SetToSeq(_)
SetToSeq(S) ==
    IF S = {} THEN <<>>
    ELSE LET x == CHOOSE y \in S : TRUE IN <<x>> \o SetToSeq(S \ {x})

\* The result of a call: a value, or the exception that left it.
Ok(value) == [ok |-> TRUE, value |-> value]
Raise(exc) == [ok |-> FALSE, exc |-> exc]

\* `for item in data`: the items a JSON value yields, or TypeError.  A dict
\* yields its keys, a str its characters (one str item stands for them).
Iterate(data) ==
    CASE data.t = "list" -> Ok(data.v)
      [] data.t = "dict" -> Ok([i \in 1..Cardinality(DOMAIN data.v) |->
                                  JStr(SetToSeq(DOMAIN data.v)[i])])
      [] data.t = "str" -> Ok(IF data.v = "" THEN <<>> ELSE <<JStr(data.v)>>)
      [] OTHER -> Raise("TypeError")

\* x[key] of Python: the value, KeyError for a dict without the key,
\* TypeError for a value that is no dict (a str, a list, a number, None).
Subscript(x, key) ==
    IF ~IsDict(x) THEN Raise("TypeError")
    ELSE IF ~HasKey(x, key) THEN Raise("KeyError")
    ELSE Ok(x.v[key])

(***************************************************************************)
(* analysis_engine.py: _run_tool, the two parsers, run_analysis.           *)
(***************************************************************************)
\* What subprocess.run(command, cwd, capture_output, check=True) can do: the
\* process cannot be started (FileNotFoundError when the binary or the cwd
\* is missing, PermissionError), or it exits with a code and a stdout; the
\* stdout is text that is JSON (held as the value it denotes) or is not.
NotJson == [t |-> "notjson"]

\* json.loads(stdout)
JsonLoads(stdout) == IF stdout.t = "notjson" THEN Raise("JSONDecodeError") ELSE Ok(stdout)

\* _run_tool: FileNotFoundError is printed and raised again, a non-zero exit
\* code (CalledProcessError) and undecodable output give {}, any other error
\* is not caught.
RunTool(ran) ==
    IF ran.spawn # "started" THEN Raise(ran.spawn)
    ELSE IF ran.exit # 0 THEN Ok(EmptyDict)
    ELSE IF JsonLoads(ran.stdout).ok THEN JsonLoads(ran.stdout)
    ELSE Ok(EmptyDict)

\* The dict _parse_ruff_output appends for one item.
EngineRuffIssue(item) ==
    LET location == Subscript(item, "location")
        code == Subscript(item, "code")
        message == Subscript(item, "message")
        filename == Subscript(item, "filename")
        row == IF location.ok THEN Subscript(location.value, "row") ELSE location
    IN  IF ~code.ok THEN code
        ELSE IF ~message.ok THEN message
        ELSE IF ~filename.ok THEN filename
        ELSE IF ~row.ok THEN row
        ELSE Ok([category |-> "Code Quality", severity |-> "Medium",
                 title |-> <<code.value, ": ", message.value>>,
                 description |-> message.value,
                 file_path |-> filename.value, line_number |-> row.value])

\* SEVERITY_MAPPING.get(raw, "Medium")
EngineBanditSeverity(raw) ==
    IF raw.t # "str" THEN "Medium"
    ELSE CASE raw.v = "LOW" -> "Low"
           [] raw.v = "MEDIUM" -> "Medium"
           [] raw.v = "HIGH" -> "High"
           [] OTHER -> "Medium"

\* The dict _parse_bandit_output appends for one item.
EngineBanditIssue(item) ==
    LET sev == Subscript(item, "issue_severity")
        text == Subscript(item, "issue_text")
        conf == Subscript(item, "issue_confidence")
        info == Subscript(item, "more_info")
        filename == Subscript(item, "filename")
        line == Subscript(item, "line_number")
    IN  IF ~sev.ok THEN sev
        ELSE IF ~text.ok THEN text
        ELSE IF ~conf.ok THEN conf
        ELSE IF ~info.ok THEN info
        ELSE IF ~filename.ok THEN filename
        ELSE IF ~line.ok THEN line
        ELSE IF sev.value.t \in {"list", "dict"} THEN Raise("TypeError")
        ELSE Ok([category |-> "Security", severity |-> EngineBanditSeverity(sev.value),
                 title |-> text.value,
                 description |-> <<"Confidence: ", conf.value, ". More info: ", info.value>>,
                 file_path |-> filename.value, line_number |-> line.value])

\* A loop that appends Convert(item) for each item and lets the first
\* exception leave it.
RECURSIVE EngineCollect(_, _, _, _)
EngineCollect(tool, items, i, acc) ==
    IF i > Len(items) THEN Ok(acc)
    ELSE LET r == IF tool = "ruff" THEN EngineRuffIssue(items[i])
                  ELSE EngineBanditIssue(items[i])
         IN  IF r.ok THEN EngineCollect(tool, items, i + 1, Append(acc, r.value)) ELSE r

\* _parse_ruff_output(data)
EngineParseRuff(data) ==
    LET items == Iterate(data)
    IN  IF items.ok THEN EngineCollect("ruff", items.value, 1, <<>>) ELSE items

\* _parse_bandit_output(data): `"results" in data` is a key test on a dict,
\* a membership test on a list, a TypeError on a number or None.
EngineParseBandit(data) ==
    CASE data.t = "dict" ->
            IF ~HasKey(data, "results") THEN Ok(<<>>)
            ELSE LET items == Iterate(data.v["results"])
                 IN  IF items.ok THEN EngineCollect("bandit", items.value, 1, <<>>)
                     ELSE items
      [] data.t = "list" ->
            IF \E i \in 1..Len(data.v) : data.v[i] = JStr("results")
            THEN Raise("TypeError") ELSE Ok(<<>>)
      [] data.t = "str" -> IF data.v = "results" THEN Raise("TypeError") ELSE Ok(<<>>)
      [] OTHER -> Raise("TypeError")

Tools == {"ruff", "bandit"}
NoRun == [spawn |-> "none", exit |-> 0, stdout |-> NotJson]

\* Records as ruff prints them, and items that are not such records.
RuffRecord(code, filename, row) ==
    JDict([code |-> JStr(code), message |-> JStr("msg"), filename |-> JStr(filename),
           location |-> JDict([row |-> JNum(row), column |-> JNum(1)])])
RuffRecordNoCode(filename, row) ==
    JDict([message |-> JStr("msg"), filename |-> JStr(filename),
           location |-> JDict([row |-> JNum(row), column |-> JNum(1)])])
EngineRuffItems ==
    {RuffRecord("E501", f, 1) : f \in {"a.py", "b.py"}}
        \cup {RuffRecord("E501", "a.py", 0), RuffRecordNoCode("a.py", 1), JNum(7)}
RuffStdouts ==
    {NotJson, JNull, EmptyDict, JDict([error |-> JStr("x")])}
        \cup {JList(l) : l \in SeqsUpTo(EngineRuffItems, MaxRecords)}

\* Records as bandit prints them under "results".
BanditRecord(severity, confidence, filename, line) ==
    JDict([issue_severity |-> JStr(severity), issue_confidence |-> JStr(confidence),
           issue_text |-> JStr("text"), more_info |-> JStr("url"),
           filename |-> JStr(filename), line_number |-> JNum(line)])
BanditRecordNoText(severity, filename, line) ==
    JDict([issue_severity |-> JStr(severity), issue_confidence |-> JStr("HIGH"),
           more_info |-> JStr("url"),
           filename |-> JStr(filename), line_number |-> JNum(line)])
EngineBanditItems ==
    {BanditRecord(sv, "HIGH", "a.py", 1) : sv \in {"LOW", "HIGH"}}
        \cup {BanditRecordNoText("HIGH", "a.py", 1), JNum(7)}
BanditStdouts ==
    {NotJson, JNull, EmptyDict, JList(<<>>), JDict([results |-> JNull])}
        \cup {JDict([results |-> JList(l)]) : l \in SeqsUpTo(EngineBanditItems, MaxRecords)}

\* What running a tool can do.
Runs(tool) ==
    {[spawn |-> sp, exit |-> 0, stdout |-> NotJson] :
        sp \in {"FileNotFoundError", "PermissionError"}}
    \cup [spawn : {"started"}, exit : 0..MaxExit,
          stdout : IF tool = "ruff" THEN RuffStdouts ELSE BanditStdouts]

\* The directories that exist.
ExistingDirs == {"/tmp/project"}

\* The values of project_path.
ProjectPaths == {"/tmp/project", "/nonexistent"}

\* What subprocess.run(command, cwd=project_path, ...) can do: with a cwd that
\* does not exist no program is executed and FileNotFoundError is raised.
RunsAt(tool, project_path) ==
    IF project_path \in ExistingDirs THEN Runs(tool)
    ELSE {[spawn |-> "FileNotFoundError", exit |-> 0, stdout |-> NotJson]}

InitEngine ==
    /\ ra_pc = "start"
    /\ ra_path \in ProjectPaths
    /\ ra_calls = <<>>
    /\ ra_ran = [t \in Tools |-> NoRun]
    /\ ra_output = [t \in Tools |-> JNull]
    /\ ra_report = NoScores
    /\ ra_raised = "none"
    /\ ScoreIdle
    /\ CommandIdle
    /\ AdapterIdle
    /\ StructureIdle
    /\ ScorerIdle
    /\ MappingIdle
    /\ ServiceIdle

\* ruff_output = _run_tool(["ruff", ...], project_path)
RunRuff ==
    /\ ra_pc = "start"
    /\ \E ran \in RunsAt("ruff", ra_path) :
          LET r == RunTool(ran)
          IN  /\ ra_ran' = [ra_ran EXCEPT !["ruff"] = ran]
              /\ ra_calls' = Append(ra_calls, "ruff")
              /\ IF r.ok
                 THEN /\ ra_output' = [ra_output EXCEPT !["ruff"] = r.value]
                      /\ ra_pc' = "ruff_ran"
                      /\ UNCHANGED ra_raised
                 ELSE /\ ra_raised' = r.exc
                      /\ ra_pc' = "raised"
                      /\ UNCHANGED ra_output
    /\ UNCHANGED <<ra_path, ra_report, scoreVars, commandVars, adapterVars, structureVars,
                   scorerVars, normalizeVars, mappingVars,
                   serviceVars>>

\* bandit_output = _run_tool(["bandit", ...], project_path)
RunBandit ==
    /\ ra_pc = "ruff_ran"
    /\ \E ran \in RunsAt("bandit", ra_path) :
          LET r == RunTool(ran)
          IN  /\ ra_ran' = [ra_ran EXCEPT !["bandit"] = ran]
              /\ ra_calls' = Append(ra_calls, "bandit")
              /\ IF r.ok
                 THEN /\ ra_output' = [ra_output EXCEPT !["bandit"] = r.value]
                      /\ ra_pc' = "bandit_ran"
                      /\ UNCHANGED ra_raised
                 ELSE /\ ra_raised' = r.exc
                      /\ ra_pc' = "raised"
                      /\ UNCHANGED ra_output
    /\ UNCHANGED <<ra_path, ra_report, scoreVars, commandVars, adapterVars, structureVars,
                   scorerVars, normalizeVars, mappingVars,
                   serviceVars>>

\* The report run_analysis assembles from the two issue lists.
Report(ruff_issues, bandit_issues) ==
    LET all_issues == ruff_issues \o bandit_issues
        sc == CalculateScores(all_issues)
    IN  [overall_x10 |-> sc["overall_x10"],
         structure_score |-> sc["Structure"],
         quality_score |-> sc["Code Quality"],
         security_score |-> sc["Security"],
         dependencies_score |-> sc["Dependencies"],
         issues |-> all_issues]

\* Steps 2 to 4 of run_analysis: parse, score, return the report.
ParseAndScore ==
    /\ ra_pc = "bandit_ran"
    /\ LET ruff_issues == EngineParseRuff(ra_output["ruff"])
           bandit_issues == EngineParseBandit(ra_output["bandit"])
       IN  IF ~ruff_issues.ok
           THEN ra_pc' = "raised" /\ ra_raised' = ruff_issues.exc /\ UNCHANGED ra_report
           ELSE IF ~bandit_issues.ok
           THEN ra_pc' = "raised" /\ ra_raised' = bandit_issues.exc /\ UNCHANGED ra_report
           ELSE /\ ra_pc' = "returned"
                /\ ra_report' = Report(ruff_issues.value, bandit_issues.value)
                /\ UNCHANGED ra_raised
    /\ UNCHANGED <<ra_path, ra_calls, ra_ran, ra_output, scoreVars, commandVars, adapterVars,
                   structureVars, scorerVars, normalizeVars, mappingVars,
                   serviceVars>>

NextEngine == RunRuff \/ RunBandit \/ ParseAndScore

SpecEngine == InitEngine /\ [][NextEngine]_vars

(***************************************************************************)
(* The claims about run_analysis.                                          *)
(***************************************************************************)
\* The tool's invocation failed: it could not be started, it exited with a
\* code other than 0, or its output was not JSON.
ToolFailed(tool) ==
    /\ ra_ran[tool].spawn # "none"
    /\ \/ ra_ran[tool].spawn # "started"
       \/ ra_ran[tool].exit # 0
       \/ ra_ran[tool].stdout = NotJson

ToolCategory(tool) == IF tool = "ruff" THEN "Code Quality" ELSE "Security"

\* C5: a failure of one tool invocation (binary not installed, non-zero exit,
\* unparsable output, any raised error) counts as zero issues from that tool
\* and never aborts the run: no exception leaves run_analysis, and a run that
\* returned invoked both tools and holds no issue of a tool that failed.
C5_ToolFailureNeverAborts ==
    /\ ra_pc # "raised"
    /\ ra_pc = "returned" =>
          /\ \A tool \in Tools : \E i \in 1..Len(ra_calls) : ra_calls[i] = tool
          /\ \A tool \in Tools : ToolFailed(tool) =>
                \A i \in 1..Len(ra_report.issues) :
                    ra_report.issues[i].category # ToolCategory(tool)

\* The records a tool's returned output holds.
OutputRecords(tool) ==
    IF tool = "ruff"
    THEN (IF ra_output["ruff"].t = "list" THEN ra_output["ruff"].v ELSE <<>>)
    ELSE (IF /\ ra_output["bandit"].t = "dict"
             /\ HasKey(ra_output["bandit"], "results")
             /\ ra_output["bandit"].v["results"].t = "list"
          THEN ra_output["bandit"].v["results"].v ELSE <<>>)

\* C6: in every run each registered tool is invoked exactly once, ruff before
\* bandit, and the report's issue list is the ruff issues followed by the
\* bandit issues, each in the order of the tool's records.
C6_EachToolOnceInOrder ==
    ra_pc \in {"returned", "raised"} =>
        /\ ra_calls = <<"ruff", "bandit">>
        /\ ra_pc = "returned" =>
              LET rr == OutputRecords("ruff")
                  br == OutputRecords("bandit")
                  out == ra_report.issues
              IN  /\ Len(out) = Len(rr) + Len(br)
                  /\ \A i \in 1..Len(rr) :
                        /\ out[i].category = "Code Quality"
                        /\ out[i].file_path = rr[i].v["filename"]
                        /\ out[i].line_number = rr[i].v["location"].v["row"]
                  /\ \A i \in 1..Len(br) :
                        /\ out[Len(rr) + i].category = "Security"
                        /\ out[Len(rr) + i].title = br[i].v["issue_text"]
                        /\ out[Len(rr) + i].severity
                              = EngineBanditSeverity(br[i].v["issue_severity"])

\* The findings a tool printed, as the issues of the report: its stdout is a
\* JSON payload of findings when every item of it is a record the tool's
\* parser converts.
PrintedFindings(tool) ==
    LET parsed == IF JsonLoads(ra_ran[tool].stdout).ok
                  THEN (IF tool = "ruff" THEN EngineParseRuff(ra_ran[tool].stdout)
                        ELSE EngineParseBandit(ra_ran[tool].stdout))
                  ELSE Raise("JSONDecodeError")
    IN  IF parsed.ok THEN parsed.value ELSE <<>>

ToolScore(tool) == IF tool = "ruff" THEN "quality_score" ELSE "security_score"

\* C26: when ruff or bandit exits with code 1 and prints a valid JSON payload
\* of findings, a run that returns a report has every finding of the payload
\* in the report's issue list and has charged the findings to the score of
\* their category.
C26_ExitOneIsFindingsPresent ==
    ra_pc = "returned" =>
        \A tool \in Tools :
            (ra_ran[tool].spawn = "started" /\ ra_ran[tool].exit = 1) =>
                LET findings == PrintedFindings(tool)
                IN  /\ \A i \in DOMAIN findings :
                          \E j \in DOMAIN ra_report.issues : ra_report.issues[j] = findings[i]
                    /\ findings # <<>> => ra_report[ToolScore(tool)] < InitialScore

(***************************************************************************)
(* process_utils.py: run_command.                                          *)
(*                                                                         *)
(* A message is the sequence of the pieces its f-string joins.  Time is    *)
(* counted in seconds; a child whose duration exceeds the timeout stands   *)
(* for every child still running when the timeout expires.                 *)
(***************************************************************************)
\* The program names the calls use, and str.lower() on them.
CommandNames == {"ruff", "Ruff", "bandit", "BANDIT", "radon", "/usr/bin/ruff"}
Lower(name) ==
    CASE name = "Ruff" -> "ruff"
      [] name = "BANDIT" -> "bandit"
      [] OTHER -> name

\* ' '.join(command)
RECURSIVE JoinSpace(_)
JoinSpace(argv) ==
    IF Len(argv) = 0 THEN <<>>
    ELSE IF Len(argv) = 1 THEN <<argv[1]>>
    ELSE <<argv[1], " ">> \o JoinSpace(Tail(argv))

\* The arguments of a call: command is a list of str or some other value
\* (None, a str); cwd is a str or some other value.
CommandValues ==
    {[list |-> FALSE, argv |-> <<>>], [list |-> TRUE, argv |-> <<>>]}
        \cup {[list |-> TRUE, argv |-> <<n, "check">>] : n \in CommandNames}
CwdValues ==
    {[str |-> FALSE, path |-> ""], [str |-> TRUE, path |-> ""],
     [str |-> TRUE, path |-> "/tmp/project"], [str |-> TRUE, path |-> "/nonexistent"]}

\* What the child does once subprocess.run is entered.
ChildFates ==
    {[spawn |-> sp, exit |-> 0, stdout |-> "", stderr |-> "", duration |-> 0] :
        sp \in {"FileNotFoundError", "PermissionError", "OSError"}}
    \cup [spawn : {"started"}, exit : 0..MaxExit, stdout : {"", "out"},
          stderr : {"", "err"}, duration : 0..MaxDuration]
NoChild == [spawn |-> "none", exit |-> 0, stdout |-> "", stderr |-> "", duration |-> 0]

Result(success, output) == [success |-> success, output |-> output]
NoResult == [success |-> FALSE, output |-> <<"(no result)">>]

\* A plausible slip: the existence of cwd is not checked.
ValidateNoExists(args) ==
    IF ~args.command.list \/ args.command.argv = <<>>
    THEN Ok(Result(FALSE, <<"Parameter 'command' must be a non-empty list">>))
    ELSE IF ~args.cwd.str \/ args.cwd.path = ""
    THEN Ok(Result(FALSE, <<"Parameter 'cwd' must be a non-empty string">>))
    ELSE Raise("proceed")

\* Lines 23 to 32: the early returns, or "proceed".
Validate(args) ==
    IF ~args.command.list \/ args.command.argv = <<>>
    THEN Ok(Result(FALSE, <<"Parameter 'command' must be a non-empty list">>))
    ELSE IF ~args.cwd.str \/ args.cwd.path = ""
    THEN Ok(Result(FALSE, <<"Parameter 'cwd' must be a non-empty string">>))
    ELSE IF args.cwd.path \notin ExistingDirs
    THEN Ok(Result(FALSE, <<"Directory '", args.cwd.path, "' does not exist">>))
    ELSE Raise("proceed")

\* A plausible slip: exit code 1 whitelisted for every tool.
ExitResultAnyTool(args, child) ==
    IF child.exit = 0 \/ child.exit = 1
    THEN Result(TRUE, <<child.stdout>>)
    ELSE Result(FALSE, <<"Command '">> \o JoinSpace(args.command.argv)
                  \o <<"' failed with exit code ", ToString(child.exit), ":\n",
                       IF child.stderr # "" THEN child.stderr ELSE child.stdout>>)

\* Lines 49 to 63: the tuple returned for a child that exited.
ExitResult(args, child) ==
    LET tool_name == Lower(args.command.argv[1])
        error_output == IF child.stderr # "" THEN child.stderr ELSE child.stdout
    IN  IF child.exit = 0 THEN Result(TRUE, <<child.stdout>>)
        ELSE IF tool_name = "bandit" /\ child.exit = 1 THEN Result(TRUE, <<child.stdout>>)
        ELSE IF tool_name = "ruff" /\ child.exit = 1 THEN Result(TRUE, <<child.stdout>>)
        ELSE Result(FALSE, <<"Command '">> \o JoinSpace(args.command.argv)
                      \o <<"' failed with exit code ", ToString(child.exit), ":\n",
                           error_output>>)

\* A plausible slip: no handler for TimeoutExpired, which then reaches the
\* handler for Exception.
ExceptResultNoTimeout(args, exc) ==
    CASE exc = "FileNotFoundError" ->
            Ok(Result(FALSE, <<"Command '", args.command.argv[1], "' not found. Is it installed?">>))
      [] exc = "PermissionError" ->
            Ok(Result(FALSE, <<"Permission denied to execute '", args.command.argv[1], "'">>))
      [] OTHER ->
            Ok(Result(FALSE, <<"Unexpected error running '", args.command.argv[1], "': ", exc>>))

\* Lines 65 to 83: the except clauses.
ExceptResult(args, exc) ==
    CASE exc = "TimeoutExpired" ->
            Ok(Result(FALSE, <<"Command '", args.command.argv[1], "' exceeded timeout of ",
                               ToString(args.timeout), " seconds">>))
      [] exc = "FileNotFoundError" ->
            Ok(Result(FALSE, <<"Command '", args.command.argv[1], "' not found. Is it installed?">>))
      [] exc = "PermissionError" ->
            Ok(Result(FALSE, <<"Permission denied to execute '", args.command.argv[1], "'">>))
      [] OTHER ->
            Ok(Result(FALSE, <<"Unexpected error running '", args.command.argv[1], "': ", exc>>))

InitCommand ==
    /\ rc_pc = "called"
    /\ rc_args \in [command : CommandValues, cwd : CwdValues, timeout : 1..MaxTimeout]
    /\ rc_child = NoChild
    /\ rc_elapsed = 0
    /\ rc_spawns = 0
    /\ rc_result = NoResult
    /\ ScoreIdle
    /\ EngineIdle
    /\ AdapterIdle
    /\ StructureIdle
    /\ ScorerIdle
    /\ MappingIdle
    /\ ServiceIdle

\* The parameter checks: an early return, or on to subprocess.run.
CheckArguments ==
    /\ rc_pc = "called"
    /\ LET v == Validate(rc_args)
       IN  IF v.ok THEN rc_pc' = "returned" /\ rc_result' = v.value
           ELSE rc_pc' = "spawning" /\ UNCHANGED rc_result
    /\ UNCHANGED <<rc_args, rc_child, rc_elapsed, rc_spawns, scoreVars, engineVars, adapterVars, structureVars, scorerVars, normalizeVars, mappingVars,
                   serviceVars>>

\* The way a raised exception leaves the try statement.
Leave(r) ==
    IF r.ok THEN rc_pc' = "returned" /\ rc_result' = r.value
    ELSE rc_pc' = "raised" /\ UNCHANGED rc_result

\* subprocess.run starts the child, or raises because it cannot.
Spawn ==
    /\ rc_pc = "spawning"
    /\ rc_spawns' = rc_spawns + 1
    /\ \E fate \in ChildFates :
          /\ rc_child' = fate
          /\ IF fate.spawn = "started" THEN rc_pc' = "running" /\ UNCHANGED rc_result
             ELSE Leave(ExceptResult(rc_args, fate.spawn))
    /\ UNCHANGED <<rc_args, rc_elapsed, scoreVars, engineVars, adapterVars, structureVars, scorerVars, normalizeVars, mappingVars,
                   serviceVars>>

\* A second passes while the child runs.
Tick ==
    /\ rc_pc = "running"
    /\ rc_elapsed < rc_child.duration
    /\ rc_elapsed < rc_args.timeout
    /\ rc_elapsed' = rc_elapsed + 1
    /\ UNCHANGED <<rc_pc, rc_args, rc_child, rc_spawns, rc_result, scoreVars, engineVars, adapterVars, structureVars, scorerVars, normalizeVars, mappingVars,
                   serviceVars>>

\* The child exits within the timeout.
ChildExits ==
    /\ rc_pc = "running"
    /\ rc_elapsed = rc_child.duration
    /\ rc_pc' = "returned"
    /\ rc_result' = ExitResult(rc_args, rc_child)
    /\ UNCHANGED <<rc_args, rc_child, rc_elapsed, rc_spawns, scoreVars, engineVars, adapterVars, structureVars, scorerVars, normalizeVars, mappingVars,
                   serviceVars>>

\* The timeout expires: subprocess.run kills the child and raises
\* TimeoutExpired.
TimeoutExpires ==
    /\ rc_pc = "running"
    /\ rc_elapsed = rc_args.timeout
    /\ rc_elapsed < rc_child.duration
    /\ Leave(ExceptResult(rc_args, "TimeoutExpired"))
    /\ UNCHANGED <<rc_args, rc_child, rc_elapsed, rc_spawns, scoreVars, engineVars, adapterVars, structureVars, scorerVars, normalizeVars, mappingVars,
                   serviceVars>>

NextCommand == CheckArguments \/ Spawn \/ Tick \/ ChildExits \/ TimeoutExpires

SpecCommand == InitCommand /\ [][NextCommand]_vars

\* The operating system keeps running the child and the clock.
SpecCommandFair == SpecCommand /\ WF_vars(NextCommand)

(***************************************************************************)
(* The claims about run_command.                                           *)
(***************************************************************************)
Range(f) == {f[i] : i \in DOMAIN f}

\* The child was started and ran to its exit before the timeout expired.
ChildExited == rc_child.spawn = "started" /\ rc_child.duration <= rc_args.timeout
\* The child was started and runs longer than the timeout.
ChildOverran == rc_child.spawn = "started" /\ rc_child.duration > rc_args.timeout

\* 'ruff' or 'bandit' in any case, among the names in use.
IsRuffOrBandit(name) == name \in {"ruff", "Ruff", "bandit", "BANDIT"}

\* C7: run_command returns success=True with the captured stdout exactly when
\* the child exits with code 0, or with code 1 and the command's first element
\* is 'ruff' or 'bandit' in any case; for every other exit it returns
\* success=False with a message carrying stderr, or stdout when stderr is empty.
C7_ExitCodePolicy ==
    rc_pc = "returned" =>
        LET whitelisted ==
                /\ ChildExited
                /\ \/ rc_child.exit = 0
                   \/ rc_child.exit = 1 /\ IsRuffOrBandit(rc_args.command.argv[1])
        IN  /\ rc_result.success <=> whitelisted
            /\ whitelisted => rc_result.output = <<rc_child.stdout>>
            /\ (ChildExited /\ ~whitelisted) =>
                  rc_result.output[Len(rc_result.output)] =
                      (IF rc_child.stderr = "" THEN rc_child.stdout ELSE rc_child.stderr)

\* "Ruff" exited with code 1 and the call succeeded with its stdout.
C7_Witness ==
    /\ rc_pc = "returned"
    /\ ChildExited
    /\ rc_child.exit = 1
    /\ rc_args.command.argv[1] = "Ruff"
    /\ rc_child.stdout = "out"
    /\ rc_result = Result(TRUE, <<"out">>)

\* C8: every call returns; when the child runs longer than the timeout the
\* call returns success=False with a message that names the configured
\* timeout and differs from the 'not found' and 'failed with exit code'
\* messages; the call never blocks for ever and never raises.
C8_TimeoutReturns ==
    /\ [](rc_pc # "raised")
    /\ []((rc_pc = "returned" /\ ChildOverran) =>
            /\ ~rc_result.success
            /\ ToString(rc_args.timeout) \in Range(rc_result.output)
            /\ "' exceeded timeout of " \in Range(rc_result.output)
            /\ "' not found. Is it installed?" \notin Range(rc_result.output)
            /\ "' failed with exit code " \notin Range(rc_result.output))
    /\ []((rc_pc = "running") => rc_elapsed <= rc_args.timeout)
    /\ (rc_pc = "called" ~> rc_pc = "returned")

\* A child that overran its timeout was killed and the call returned.
C8_Witness ==
    /\ rc_pc = "returned"
    /\ ChildOverran
    /\ rc_elapsed = rc_args.timeout
    /\ ~rc_result.success

\* The call's arguments fail the checks of run_command.
InvalidArguments ==
    \/ ~rc_args.command.list
    \/ rc_args.command.argv = <<>>
    \/ ~rc_args.cwd.str
    \/ rc_args.cwd.path = ""
    \/ rc_args.cwd.path \notin ExistingDirs

\* C9: a call with an empty or non-list command, an empty cwd or a cwd that
\* does not exist returns success=False with a descriptive error and spawns no
\* process.
C9_InvalidArgumentsRejected ==
    (rc_pc # "idle" /\ InvalidArguments) =>
        /\ rc_spawns = 0
        /\ rc_pc \in {"called", "returned"}
        /\ rc_pc = "returned" =>
              /\ ~rc_result.success
              /\ rc_result.output # <<>>
              /\ rc_result.output # NoResult.output
              /\ (rc_args.command.list /\ rc_args.command.argv # <<>>
                    /\ rc_args.cwd.str /\ rc_args.cwd.path # "") =>
                    rc_args.cwd.path \in Range(rc_result.output)

\* A call with a good command and a cwd that does not exist has returned.
C9_Witness ==
    /\ rc_pc = "returned"
    /\ rc_args.command.list /\ rc_args.command.argv # <<>>
    /\ rc_args.cwd.str /\ rc_args.cwd.path = "/nonexistent"
    /\ ~rc_result.success
    /\ rc_spawns = 0

(***************************************************************************)
(* app/libs/analyzers: the Ruff and Bandit adapters.                       *)
(***************************************************************************)
\* bool(x) of Python.
Truthy(x) ==
    CASE x.t = "null" -> FALSE
      [] x.t = "num" -> x.v # 0
      [] x.t = "str" -> x.v # ""
      [] x.t = "list" -> x.v # <<>>
      [] x.t = "dict" -> DOMAIN x.v # {}

\* x.get(key, default): AttributeError for a value that is no dict.
Get(x, key, default) ==
    IF ~IsDict(x) THEN Raise("AttributeError")
    ELSE Ok(IF HasKey(x, key) THEN x.v[key] ELSE default)

\* code[0].upper() on the rule codes in use.
FirstCharUpper(code) ==
    CASE code = "E501" -> "E"
      [] code = "e501" -> "E"
      [] code = "S101" -> "S"
      [] code = "N802" -> "N"
      [] code = "UP006" -> "U"
      [] code = "PERF101" -> "P"
      [] code = "ZZ999" -> "Z"
      [] OTHER -> "?"

\* severity_map of RuffAnalyzer._map_ruff_severity.
RuffSeverityMap(prefix) ==
    CASE prefix \in {"E", "F", "B"} -> Ok("High")
      [] prefix \in {"W", "C", "A", "I"} -> Ok("Medium")
      [] prefix \in {"N", "D", "T", "Q"} -> Ok("Low")
      [] prefix = "S" -> Ok("Critical")
      [] prefix \in {"UP", "RUF", "PT", "SIM", "TCH", "ARG", "PTH", "PD", "NPY", "AIR", "DJ"}
            -> Ok("Medium")
      [] prefix \in {"PERF", "PL", "PGH", "TRIO"} -> Ok("High")
      [] prefix \in {"TID", "ERA", "FLY"} -> Ok("Low")
      [] OTHER -> Raise("KeyError")

\* RuffAnalyzer._map_ruff_severity(code)
MapRuffSeverity(code) ==
    IF ~Truthy(code) THEN Ok("Medium")
    ELSE CASE code.t = "str" ->
                LET hit == RuffSeverityMap(FirstCharUpper(code.v))
                IN  Ok(IF hit.ok THEN hit.value ELSE "Medium")
           [] code.t = "num" -> Raise("TypeError")
           [] code.t = "dict" -> Raise("KeyError")
           [] OTHER -> Raise("AttributeError")

\* RuffAnalyzer._create_description(item), for item a dict: the labels of
\* the parts it joins, or the exception that leaves it.
RuffDescription(item) ==
    LET message == Get(item, "message", JStr("Code quality issue detected")).value
        code == Get(item, "code", JStr("")).value
        location == Get(item, "location", EmptyDict).value
        end_location == Get(item, "end_location", EmptyDict).value
        fix_info == Get(item, "fix", EmptyDict).value
        column == Get(location, "column", JNull)
    IN  IF ~column.ok THEN column
        ELSE IF Truthy(column.value) /\ ~IsDict(end_location) THEN Raise("AttributeError")
        ELSE IF Truthy(column.value) /\ column.value.t # "num" THEN Raise("TypeError")
        ELSE IF Truthy(fix_info) /\ ~IsDict(fix_info) THEN Raise("AttributeError")
        ELSE IF message.t # "str" THEN Raise("TypeError")
        ELSE Ok(<<"message">>
                \o (IF Truthy(code) THEN <<"Rule">> ELSE <<>>)
                \o (IF Truthy(column.value) THEN <<"Column">> ELSE <<>>)
                \o (IF Truthy(fix_info) /\ Truthy(Get(fix_info, "message", JNull).value)
                    THEN <<"Fix">> ELSE <<>>))

\* BaseAnalyzer._create_issue: IssueBase(...) validates its fields (file_path a
\* str, line_number an int > 0) and raises pydantic's ValidationError, a
\* ValueError, when one fails.
CreateIssue(category, severity, title, description, file_path, line_number) ==
    IF file_path.t # "str" THEN Raise("ValidationError")
    ELSE IF line_number.t # "num" THEN Raise("ValidationError")
    ELSE IF ~(line_number.v > 0) THEN Raise("ValidationError")
    ELSE Ok([category |-> category, severity |-> severity, title |-> title,
             description |-> description, file_path |-> file_path.v,
             line_number |-> line_number.v])

\* The body of the try statement of RuffAnalyzer._parse_ruff_output for one
\* item: the issue, or the exception raised.
RuffItemIssue(item) ==
    LET location == Get(item, "location", EmptyDict)
        severity == MapRuffSeverity(Get(item, "code", JStr("")).value)
        code == Subscript(item, "code")
        message == Subscript(item, "message")
        description == RuffDescription(item)
        filename == Subscript(item, "filename")
        row == Get(location.value, "row", JNum(1))
    IN  IF ~location.ok THEN location
        ELSE IF ~severity.ok THEN severity
        ELSE IF ~code.ok THEN code
        ELSE IF ~message.ok THEN message
        ELSE IF ~description.ok THEN description
        ELSE IF ~filename.ok THEN filename
        ELSE IF ~row.ok THEN row
        ELSE CreateIssue("Quality", severity.value, <<code.value, ": ", message.value>>,
                         description.value, filename.value, row.value)

\* str.upper() on the severity and confidence words in use.
Upper(word) ==
    CASE word = "low" -> "LOW"
      [] word = "medium" -> "MEDIUM"
      [] word = "high" -> "HIGH"
      [] OTHER -> word

\* `x.upper() if x else "MEDIUM"`
UpperOrMedium(x) ==
    IF ~Truthy(x) THEN Ok("MEDIUM")
    ELSE IF x.t = "str" THEN Ok(Upper(x.v))
    ELSE Raise("AttributeError")

\* A plausible slip: a high confidence escalates a finding of any severity.
MapBanditSeverityEscalateAny(severity, confidence) ==
    LET sv == UpperOrMedium(severity)
        cf == UpperOrMedium(confidence)
    IN  IF ~sv.ok THEN sv
        ELSE IF ~cf.ok THEN cf
        ELSE IF sv.value = "HIGH" /\ cf.value = "HIGH" THEN Ok("Critical")
        ELSE IF sv.value = "HIGH" THEN Ok("High")
        ELSE IF sv.value = "MEDIUM" /\ cf.value = "HIGH" THEN Ok("High")
        ELSE IF sv.value = "MEDIUM" THEN Ok("Medium")
        ELSE IF cf.value = "HIGH" THEN Ok("Medium")
        ELSE Ok("Low")

\* BanditAnalyzer._map_bandit_severity(severity, confidence)
MapBanditSeverity(severity, confidence) ==
    LET sv == UpperOrMedium(severity)
        cf == UpperOrMedium(confidence)
    IN  IF ~sv.ok THEN sv
        ELSE IF ~cf.ok THEN cf
        ELSE IF sv.value = "HIGH" /\ cf.value = "HIGH" THEN Ok("Critical")
        ELSE IF sv.value = "HIGH" THEN Ok("High")
        ELSE IF sv.value = "MEDIUM" /\ cf.value = "HIGH" THEN Ok("High")
        ELSE IF sv.value = "MEDIUM" THEN Ok("Medium")
        ELSE Ok("Low")

\* len(x): TypeError for None and numbers.
PyLen(x) ==
    CASE x.t = "list" -> Ok(Len(x.v))
      [] x.t = "dict" -> Ok(Cardinality(DOMAIN x.v))
      [] x.t = "str" -> Ok(IF x.v = "" THEN 0 ELSE 1)
      [] OTHER -> Raise("TypeError")

\* BanditAnalyzer._create_enhanced_description(item), for item a dict: the
\* labels of the parts it joins, or the exception that leaves it.
BanditDescription(item) ==
    LET text == Get(item, "issue_text", JStr("Security vulnerability detected")).value
        test_name == Get(item, "test_name", JStr("")).value
        confidence == Get(item, "issue_confidence", JStr("")).value
        severity == Get(item, "issue_severity", JStr("")).value
        more_info == Get(item, "more_info", JStr("")).value
        code_snippet == Get(item, "code", JStr("")).value
        col_offset == Get(item, "col_offset", JNull).value
        end_col_offset == Get(item, "end_col_offset", JNull).value
        line_range == Get(item, "line_range", JList(<<>>)).value
        issue_cwe == Get(item, "issue_cwe", EmptyDict).value
    IN  IF ~PyLen(line_range).ok THEN PyLen(line_range)
        ELSE IF Truthy(issue_cwe) /\ ~IsDict(issue_cwe) THEN Raise("AttributeError")
        ELSE IF Truthy(code_snippet) /\ ~PyLen(code_snippet).ok THEN Raise("TypeError")
        ELSE IF Truthy(code_snippet) /\ code_snippet.t # "str" THEN Raise("AttributeError")
        ELSE IF text.t # "str" THEN Raise("TypeError")
        ELSE Ok(<<"issue_text">>
                \o (IF Truthy(test_name) THEN <<"Test">> ELSE <<>>)
                \o (IF Truthy(confidence) /\ Truthy(severity) THEN <<"Confidence">> ELSE <<>>)
                \o (IF col_offset.t # "null" /\ end_col_offset.t # "null"
                    THEN <<"Column">> ELSE <<>>)
                \o (IF PyLen(line_range).value > 1 THEN <<"Lines">> ELSE <<>>)
                \o (IF Truthy(issue_cwe) /\ Truthy(Get(issue_cwe, "id", JNull).value)
                    THEN <<"CWE">> ELSE <<>>)
                \o (IF Truthy(code_snippet) THEN <<"Code">> ELSE <<>>)
                \o (IF Truthy(more_info) THEN <<"More info">> ELSE <<>>))

\* The body of the try statement of BanditAnalyzer._parse_bandit_output for
\* one item: the issue, or the exception raised.
BanditItemIssue(item) ==
    LET line_range == Get(item, "line_range", JList(<<>>))
        severity == MapBanditSeverity(Get(item, "issue_severity", JStr("MEDIUM")).value,
                                      Get(item, "issue_confidence", JStr("MEDIUM")).value)
        description == BanditDescription(item)
        test_id == Get(item, "test_id", JStr("Unknown")).value
        text == Get(item, "issue_text", JStr("Security issue")).value
        filename == Get(item, "filename", JStr("unknown")).value
        line == Get(item, "line_number", JNum(1)).value
    IN  IF ~line_range.ok THEN line_range
        ELSE IF ~severity.ok THEN severity
        ELSE IF ~description.ok THEN description
        ELSE IF line_range.value.t = "dict" /\ Truthy(line_range.value) THEN Raise("KeyError")
        ELSE CreateIssue("Security", severity.value, <<test_id, ": ", text>>,
                         description.value, filename, line)

\* The for loop of a parser: an item that raises KeyError or TypeError is
\* skipped, any other exception leaves the loop.
RECURSIVE AdapterCollect(_, _, _, _)
AdapterCollect(tool, items, i, acc) ==
    IF i > Len(items) THEN Ok(acc)
    ELSE LET r == IF tool = "ruff" THEN RuffItemIssue(items[i])
                  ELSE BanditItemIssue(items[i])
         IN  IF r.ok THEN AdapterCollect(tool, items, i + 1, Append(acc, r.value))
             ELSE IF r.exc \in {"KeyError", "TypeError"}
             THEN AdapterCollect(tool, items, i + 1, acc)
             ELSE r

\* The text a tool printed: blank, or what JsonLoads reads.
Blank == [t |-> "blank"]

\* RuffAnalyzer._parse_ruff_output(output)
ParseRuffOutput(output) ==
    IF output = Blank THEN Ok(<<>>)
    ELSE LET ruff_data == JsonLoads(output)
             items == Iterate(ruff_data.value)
         IN  IF ~ruff_data.ok THEN ruff_data
             ELSE IF ~items.ok THEN items
             ELSE AdapterCollect("ruff", items.value, 1, <<>>)

\* BanditAnalyzer._parse_bandit_output(output)
ParseBanditOutput(output) ==
    IF output = Blank THEN Ok(<<>>)
    ELSE LET bandit_data == JsonLoads(output)
             metrics == Get(bandit_data.value, "metrics", EmptyDict)
             totals == Get(metrics.value, "_totals", EmptyDict)
             results == Get(bandit_data.value, "results", JList(<<>>))
             items == Iterate(results.value)
         IN  IF ~bandit_data.ok THEN Ok(<<>>)
             ELSE IF ~metrics.ok THEN metrics
             ELSE IF Truthy(metrics.value) /\ ~totals.ok THEN totals
             ELSE IF Truthy(metrics.value) /\ Truthy(totals.value) /\ ~IsDict(totals.value)
             THEN Raise("AttributeError")
             ELSE IF ~items.ok THEN items
             ELSE AdapterCollect("bandit", items.value, 1, <<>>)

\* analyze, from the result of _run_tool_safely on: parse when the sandbox
\* reported success, with JSONDecodeError, KeyError and TypeError caught.
AnalyzeOutput(tool, sandbox) ==
    IF ~sandbox.success THEN Ok(<<>>)
    ELSE LET parsed == IF tool = "ruff" THEN ParseRuffOutput(sandbox.output)
                       ELSE ParseBanditOutput(sandbox.output)
         IN  IF parsed.ok THEN parsed
             ELSE IF parsed.exc \in {"JSONDecodeError", "KeyError", "TypeError"} THEN Ok(<<>>)
             ELSE parsed

\* Items of a ruff payload: records, and items that are no proper record.
AdapterRuffItems ==
    {RuffRecord("E501", "a.py", 1), RuffRecord("S101", "b.py", 2),
     RuffRecord("E501", "a.py", 0), RuffRecord("E501", "a.py", -1),
     RuffRecordNoCode("a.py", 1),
     JDict([code |-> JStr("E501"), message |-> JStr("msg"), filename |-> JStr("a.py")]),
     JDict([code |-> JStr("E501"), message |-> JStr("msg"), filename |-> JStr("a.py"),
            location |-> JNull]),
     JDict([code |-> JStr("E501"), message |-> JStr("msg"), filename |-> JStr("a.py"),
            location |-> JDict([row |-> JStr("x")])]),
     JDict([code |-> JStr("E501"), message |-> JStr("msg"), filename |-> JNull,
            location |-> JDict([row |-> JNum(1)])]),
     JDict([code |-> JNum(501), message |-> JStr("msg"), filename |-> JStr("a.py"),
            location |-> JDict([row |-> JNum(1)])]),
     JNum(7)}

\* The levels bandit reports as issue_severity and issue_confidence.
BanditLevels == {"LOW", "MEDIUM", "HIGH"}

\* Items of a bandit payload's results.
AdapterBanditItems ==
    {BanditRecord(sv, cf, "a.py", 1) : sv \in BanditLevels, cf \in BanditLevels}
    \cup
    {BanditRecord("HIGH", "HIGH", "a.py", 1), BanditRecord("LOW", "MEDIUM", "b.py", 2),
     BanditRecord("MEDIUM", "HIGH", "a.py", 0),
     BanditRecordNoText("HIGH", "a.py", 1),
     JDict([issue_severity |-> JNum(3), issue_confidence |-> JStr("HIGH"),
            issue_text |-> JStr("text"), filename |-> JStr("a.py"), line_number |-> JNum(1)]),
     JDict([issue_severity |-> JStr("HIGH"), issue_confidence |-> JStr("HIGH"),
            issue_text |-> JStr("text"), filename |-> JNull, line_number |-> JNum(1)]),
     JDict([issue_severity |-> JStr("HIGH"), issue_confidence |-> JStr("HIGH"),
            issue_text |-> JStr("text"), filename |-> JStr("a.py"), line_number |-> JNull]),
     JDict([issue_severity |-> JStr("HIGH"), issue_confidence |-> JStr("HIGH"),
            issue_text |-> JStr("text"), filename |-> JStr("a.py"), line_number |-> JNum(1),
            line_range |-> JNull]),
     JNum(7)}

\* What the sandbox hands back for the analysis command.
AdapterOutputs(tool) ==
    {Blank, NotJson, JNull, JNum(7), EmptyDict}
    \cup (IF tool = "ruff"
          THEN {JDict([error |-> JStr("x")])}
                 \cup {JList(l) : l \in SeqsUpTo(AdapterRuffItems, MaxRecords)}
          ELSE {JList(<<>>), JDict([results |-> JNull]),
                JDict([results |-> JList(<<>>), metrics |-> JStr("x")])}
                 \cup {JDict([results |-> JList(l)]) :
                         l \in SeqsUpTo(AdapterBanditItems, MaxRecords)})
SandboxResults(tool) ==
    {[success |-> FALSE, output |-> JStr("error")]}
        \cup [success : {TRUE}, output : AdapterOutputs(tool)]

InitAdapter ==
    /\ ad_pc = "start"
    /\ ad_tool \in Tools
    /\ ad_probe = NoScores
    /\ ad_sandbox = NoScores
    /\ ad_runs = 0
    /\ ad_result = NoScores
    /\ ScoreIdle
    /\ EngineIdle
    /\ CommandIdle
    /\ StructureIdle
    /\ ScorerIdle
    /\ MappingIdle
    /\ ServiceIdle

\* What `tool --version` does: it exits with a code, outlives the 10 seconds
\* of the probe, or cannot be started.
ProbeFates ==
    [fate : {"exited"}, exit : 0..MaxExit]
        \cup [fate : {"TimeoutExpired", "FileNotFoundError", "PermissionError"}, exit : {0}]

\* A plausible slip: any probe that ran to its end counts as available.
IsToolAvailableAnyExit(probe) == probe.fate = "exited"

\* is_tool_available(tool_name): result.returncode == 0, False on any exception.
IsToolAvailable(probe) ==
    IF probe.fate = "exited" THEN probe.exit = 0 ELSE FALSE

\* if not self._is_ruff_available(): return []   (the same for bandit)
CheckAvailability ==
    /\ ad_pc = "start"
    /\ \E probe \in ProbeFates :
          /\ ad_probe' = probe
          /\ IF IsToolAvailable(probe) THEN ad_pc' = "available" /\ UNCHANGED ad_result
             ELSE ad_pc' = "returned" /\ ad_result' = Ok(<<>>)
    /\ UNCHANGED <<ad_tool, ad_sandbox, ad_runs, scoreVars, engineVars, commandVars, structureVars, scorerVars, normalizeVars, mappingVars,
                   serviceVars>>

\* success, output = self._run_tool_safely(command, project_path, timeout=120)
RunToolSafely ==
    /\ ad_pc = "available"
    /\ ad_sandbox' \in SandboxResults(ad_tool)
    /\ ad_runs' = ad_runs + 1
    /\ ad_pc' = "ran"
    /\ UNCHANGED <<ad_tool, ad_probe, ad_result, scoreVars, engineVars, commandVars, structureVars,
                   scorerVars, normalizeVars, mappingVars,
                   serviceVars>>

\* The rest of analyze: parse and return.
ParseOutput ==
    /\ ad_pc = "ran"
    /\ ad_result' = AnalyzeOutput(ad_tool, ad_sandbox)
    /\ ad_pc' = IF ad_result'.ok THEN "returned" ELSE "raised"
    /\ UNCHANGED <<ad_tool, ad_probe, ad_sandbox, ad_runs, scoreVars, engineVars, commandVars,
                   structureVars, scorerVars, normalizeVars, mappingVars,
                   serviceVars>>

NextAdapter == CheckAvailability \/ RunToolSafely \/ ParseOutput

SpecAdapter == InitAdapter /\ [][NextAdapter]_vars

(***************************************************************************)
(* The claims about the adapters' parsing.                                 *)
(***************************************************************************)
HasStr(item, key) == HasKey(item, key) /\ item.v[key].t = "str"
IsPositiveInt(x) == x.t = "num" /\ x.v > 0

\* A record with every field the adapter reads, each of the right type, and a
\* line number that is a positive integer.
WellFormedRecord(tool, item) ==
    /\ IsDict(item)
    /\ IF tool = "ruff"
       THEN /\ HasStr(item, "code") /\ HasStr(item, "message") /\ HasStr(item, "filename")
            /\ HasKey(item, "location") /\ IsDict(item.v["location"])
            /\ HasKey(item.v["location"], "row")
            /\ IsPositiveInt(item.v["location"].v["row"])
       ELSE /\ HasStr(item, "issue_severity") /\ HasStr(item, "issue_confidence")
            /\ HasStr(item, "issue_text") /\ HasStr(item, "filename")
            /\ HasKey(item, "line_number") /\ IsPositiveInt(item.v["line_number"])
            /\ HasKey(item, "line_range") => item.v["line_range"].t = "list"

\* The payload has the tool's shape: a list for ruff, a dict whose "results",
\* if any, is a list for bandit.  Blank output is an empty payload.
PayloadRecords(tool, output) ==
    IF tool = "ruff"
    THEN (IF output.t = "list" THEN Ok(output.v)
          ELSE IF output = Blank THEN Ok(<<>>) ELSE Raise("malformed"))
    ELSE (IF output.t = "dict" /\ ~HasKey(output, "results") THEN Ok(<<>>)
          ELSE IF output.t = "dict" /\ output.v["results"].t = "list"
          THEN Ok(output.v["results"].v)
          ELSE IF output = Blank THEN Ok(<<>>) ELSE Raise("malformed"))

RecordFile(tool, item) == item.v["filename"].v
RecordLine(tool, item) ==
    IF tool = "ruff" THEN item.v["location"].v["row"].v ELSE item.v["line_number"].v

\* C10: for every output handed to the Ruff or Bandit adapter after a
\* successful run, no exception leaves analyze; a malformed payload gives the
\* empty list; a valid payload gives one issue per well-formed record, in the
\* records' order, and none for a malformed record.
C10_MalformedOutputTolerated ==
    (ad_pc \in {"returned", "raised"} /\ ad_runs > 0 /\ ad_sandbox.success) =>
        /\ ad_pc = "returned"
        /\ LET records == PayloadRecords(ad_tool, ad_sandbox.output)
               good == IF records.ok
                       THEN SelectSeq(records.value,
                                      LAMBDA item : WellFormedRecord(ad_tool, item))
                       ELSE <<>>
               out == ad_result.value
           IN  /\ Len(out) = Len(good)
               /\ \A i \in 1..Len(good) :
                     /\ out[i].file_path = RecordFile(ad_tool, good[i])
                     /\ out[i].line_number = RecordLine(ad_tool, good[i])

(***************************************************************************)
(* app/analyzers/structure: the Radon and JSCPD adapters.                  *)
(***************************************************************************)
\* StructureMetrics(...): the sparse metrics of a Structure issue; a field
\* that is not given is None.
NoMetrics ==
    [cyclomatic_complexity |-> JNull, maintainability_index |-> JNull, sloc |-> JNull,
     duplicate_tokens |-> JNull, duplicate_files |-> JNull]
StructureMetrics(fields) ==
    [k \in DOMAIN NoMetrics |-> IF k \in DOMAIN fields THEN fields[k] ELSE NoMetrics[k]]

\* issue.metrics = metrics
WithMetrics(issue, metrics) ==
    [k \in DOMAIN issue \cup {"metrics"} |-> IF k = "metrics" THEN metrics ELSE issue[k]]

\* x >= n of Python for a JSON value x and a number n: TypeError unless x is
\* a number.
PyGE(x, n) == IF x.t = "num" THEN Ok(x.v >= n) ELSE Raise("TypeError")

\* `a or b` of two comparisons: b is evaluated only when a is false.
PyOr(a, b) == IF ~a.ok THEN a ELSE IF a.value THEN a ELSE b

\* JSCPDAnalyzer._get_duplication_severity(lines, tokens)
GetDuplicationSeverity(lines, tokens) ==
    LET critical == PyOr(PyGE(lines, 50), PyGE(tokens, 200))
        high == PyOr(PyGE(lines, 20), PyGE(tokens, 100))
        medium == PyOr(PyGE(lines, 10), PyGE(tokens, 50))
    IN  IF ~critical.ok THEN critical
        ELSE IF critical.value THEN Ok("Critical")
        ELSE IF ~high.ok THEN high
        ELSE IF high.value THEN Ok("High")
        ELSE IF ~medium.ok THEN medium
        ELSE IF medium.value THEN Ok("Medium")
        ELSE Ok("Low")

\* One side of a duplicate: the issue anchored at `file`, naming `other_path`.
DuplicationIssue(severity, lines_count, tokens_count, file, path, other_path) ==
    LET start == Get(file, "start", JNum(1))
        issue == CreateIssue("Structure", severity, <<"Code duplication", lines_count>>,
                             <<"Duplicated code found with", other_path>>,
                             path, start.value)
    IN  IF ~issue.ok THEN issue
        ELSE Ok(WithMetrics(issue.value,
                            StructureMetrics([duplicate_tokens |-> tokens_count,
                                              sloc |-> lines_count,
                                              duplicate_files |-> JList(<<other_path>>)])))

\* A plausible slip: only the first side of the pair is reported.
JscpdPairIssuesFirstOnly(duplicate) ==
    LET first_file == Get(duplicate, "firstFile", EmptyDict)
        second_file == Get(duplicate, "secondFile", EmptyDict)
        first_path == Get(first_file.value, "name", JStr(""))
        second_path == Get(second_file.value, "name", JStr(""))
        lines_count == Get(duplicate, "lines", JNum(0)).value
        tokens_count == Get(duplicate, "tokens", JNum(0)).value
        severity == GetDuplicationSeverity(lines_count, tokens_count)
        issue1 == DuplicationIssue(severity.value, lines_count, tokens_count,
                                   first_file.value, first_path.value, second_path.value)
    IN  IF ~first_file.ok THEN first_file
        ELSE IF ~first_path.ok THEN first_path
        ELSE IF ~second_path.ok THEN second_path
        ELSE IF ~Truthy(first_path.value) \/ ~Truthy(second_path.value) THEN Ok(<<>>)
        ELSE IF ~severity.ok THEN severity
        ELSE IF ~issue1.ok THEN issue1
        ELSE Ok(<<issue1.value>>)

\* The body of the loop of _parse_jscpd_output for one duplicate: nothing when
\* a file name is missing, else the two issues of the pair, or the exception
\* raised.
JscpdPairIssues(duplicate) ==
    LET first_file == Get(duplicate, "firstFile", EmptyDict)
        second_file == Get(duplicate, "secondFile", EmptyDict)
        first_path == Get(first_file.value, "name", JStr(""))
        second_path == Get(second_file.value, "name", JStr(""))
        lines_count == Get(duplicate, "lines", JNum(0)).value
        tokens_count == Get(duplicate, "tokens", JNum(0)).value
        severity == GetDuplicationSeverity(lines_count, tokens_count)
        issue1 == DuplicationIssue(severity.value, lines_count, tokens_count,
                                   first_file.value, first_path.value, second_path.value)
        issue2 == DuplicationIssue(severity.value, lines_count, tokens_count,
                                   second_file.value, second_path.value, first_path.value)
    IN  IF ~first_file.ok THEN first_file
        ELSE IF ~first_path.ok THEN first_path
        ELSE IF ~second_path.ok THEN second_path
        ELSE IF ~Truthy(first_path.value) \/ ~Truthy(second_path.value) THEN Ok(<<>>)
        ELSE IF ~severity.ok THEN severity
        ELSE IF ~issue1.ok THEN issue1
        ELSE IF ~issue2.ok THEN issue2
        ELSE Ok(<<issue1.value, issue2.value>>)

\* The for loop of _parse_jscpd_output: KeyError ends the loop with the issues
\* collected so far, any other exception leaves the method.
RECURSIVE JscpdCollect(_, _, _)
JscpdCollect(items, i, acc) ==
    IF i > Len(items) THEN Ok(acc)
    ELSE LET r == JscpdPairIssues(items[i])
         IN  IF r.ok THEN JscpdCollect(items, i + 1, acc \o r.value)
             ELSE IF r.exc = "KeyError" THEN Ok(acc)
             ELSE r

\* JSCPDAnalyzer._parse_jscpd_output(output_file), on the text of the file.
ParseJscpdOutput(text) ==
    LET data == JsonLoads(text)
        duplicates == Get(data.value, "duplicates", JList(<<>>))
        items == Iterate(duplicates.value)
    IN  IF ~data.ok THEN Ok(<<>>)
        ELSE IF ~duplicates.ok THEN duplicates
        ELSE IF ~items.ok THEN items
        ELSE JscpdCollect(items.value, 1, <<>>)

\* jscpd-report.json does not exist.
NoReport == [t |-> "absent"]

\* JSCPDAnalyzer.analyze after the run: `success` holds the whole tuple that
\* _run_tool_safely returned, and a tuple of two is true whatever it holds;
\* every exception is caught and leaves the empty list.
JscpdAnalyze(sandbox, report) ==
    LET success == <<sandbox.success, sandbox.output>>
    IN  IF Len(success) # 0 /\ report # NoReport
        THEN (IF ParseJscpdOutput(report).ok THEN ParseJscpdOutput(report).value ELSE <<>>)
        ELSE <<>>

\* dict.items(): the (key, value) pairs, AttributeError for a value that is no
\* dict.  The pairs come in some fixed order of the keys.
Items(data) ==
    IF ~IsDict(data) THEN Raise("AttributeError")
    ELSE Ok([i \in 1..Cardinality(DOMAIN data.v) |->
               [key |-> SetToSeq(DOMAIN data.v)[i],
                value |-> data.v[SetToSeq(DOMAIN data.v)[i]]]])

\* RadonAnalyzer._get_complexity_severity(complexity)
GetComplexitySeverity(complexity) ==
    IF complexity >= 15 THEN "Critical"
    ELSE IF complexity >= 10 THEN "High"
    ELSE IF complexity >= 7 THEN "Medium"
    ELSE "Low"

\* RadonAnalyzer._get_maintainability_severity(mi_value)
GetMaintainabilitySeverity(mi_value) ==
    IF mi_value < 40 THEN "Critical"
    ELSE IF mi_value < 50 THEN "High"
    ELSE IF mi_value < 60 THEN "Medium"
    ELSE "Low"

\* The body of the inner loop of _analyze_cyclomatic_complexity for one
\* function record of a file: no issue, one issue, or the exception raised.
ComplexityIssues(file_path, func_data) ==
    LET complexity == Get(func_data, "complexity", JNum(0))
        offending == PyGE(complexity.value, 10)
        issue == CreateIssue("Structure", GetComplexitySeverity(complexity.value.v),
                             <<"High cyclomatic complexity", complexity.value>>,
                             <<"Function", Get(func_data, "name", JNull).value>>,
                             JStr(file_path), Get(func_data, "lineno", JNum(1)).value)
    IN  IF ~complexity.ok THEN complexity
        ELSE IF ~offending.ok THEN offending
        ELSE IF ~offending.value THEN Ok(<<>>)
        ELSE IF ~issue.ok THEN issue
        ELSE Ok(<<WithMetrics(issue.value,
                              StructureMetrics([cyclomatic_complexity |-> complexity.value]))>>)

\* The loop over the functions of one file.
RECURSIVE ComplexityOfFile(_, _, _, _)
ComplexityOfFile(file_path, functions, i, acc) ==
    IF i > Len(functions) THEN Ok(acc)
    ELSE LET r == ComplexityIssues(file_path, functions[i])
         IN  IF r.ok THEN ComplexityOfFile(file_path, functions, i + 1, acc \o r.value)
             ELSE r

\* The body of the loop of _analyze_maintainability_index for one file.
MaintainabilityIssues(file_path, mi_value) ==
    IF mi_value.t = "num" /\ mi_value.v < 60
    THEN LET issue == CreateIssue("Structure", GetMaintainabilitySeverity(mi_value.v),
                                  <<"Low maintainability index", mi_value>>,
                                  <<"File has low maintainability index", mi_value>>,
                                  JStr(file_path), JNum(1))
         IN  Ok(<<WithMetrics(issue.value,
                              StructureMetrics([maintainability_index |-> mi_value]))>>)
    ELSE Ok(<<>>)

\* The body of the loop of _analyze_raw_metrics for one file (sloc > 200 is
\* sloc >= 201 on whole numbers).
RawIssues(file_path, metrics) ==
    LET sloc == Get(metrics, "sloc", JNum(0))
        large == PyGE(sloc.value, 201)
        issue == CreateIssue("Structure", IF sloc.value.v < 500 THEN "Medium" ELSE "High",
                             <<"Large file", sloc.value>>, <<"File has", sloc.value>>,
                             JStr(file_path), JNum(1))
    IN  IF ~sloc.ok THEN sloc
        ELSE IF ~large.ok THEN large
        ELSE IF ~large.value THEN Ok(<<>>)
        ELSE Ok(<<WithMetrics(issue.value, StructureMetrics([sloc |-> sloc.value]))>>)

\* The three invocations of radon, in the order analyze makes them.
RadonSteps == <<"cc", "mi", "raw">>

\* What one file's entry of a step's payload gives.
RadonFileIssues(step, file_path, value) ==
    CASE step = "cc" -> IF value.t = "list" THEN ComplexityOfFile(file_path, value.v, 1, <<>>)
                        ELSE Ok(<<>>)
      [] step = "mi" -> MaintainabilityIssues(file_path, value)
      [] step = "raw" -> RawIssues(file_path, value)

\* The loop over the files of a step's payload.
RECURSIVE RadonCollect(_, _, _, _)
RadonCollect(step, pairs, i, acc) ==
    IF i > Len(pairs) THEN Ok(acc)
    ELSE LET r == RadonFileIssues(step, pairs[i].key, pairs[i].value)
         IN  IF r.ok THEN RadonCollect(step, pairs, i + 1, acc \o r.value)
             ELSE IF r.exc = "KeyError" THEN Ok(acc)
             ELSE r

\* A plausible slip: the output is parsed whatever the sandbox reported.
RadonStepAlways(step, sandbox) ==
    LET data == JsonLoads(sandbox.output)
        pairs == Items(data.value)
    IN  IF ~data.ok THEN Ok(<<>>)
        ELSE IF ~pairs.ok THEN pairs
        ELSE RadonCollect(step, pairs.value, 1, <<>>)

\* _analyze_cyclomatic_complexity, _analyze_maintainability_index and
\* _analyze_raw_metrics, from the result of _run_tool_safely on: nothing when
\* the sandbox reported failure or the output does not decode.
RadonStep(step, sandbox) ==
    IF ~sandbox.success THEN Ok(<<>>)
    ELSE LET data == JsonLoads(sandbox.output)
             pairs == Items(data.value)
         IN  IF ~data.ok THEN Ok(<<>>)
             ELSE IF ~pairs.ok THEN pairs
             ELSE RadonCollect(step, pairs.value, 1, <<>>)

StructureTools == {"radon", "jscpd"}
Files == {"a.py", "b.py"}

\* A function record as `radon cc --json` prints it.
FunctionRecord(complexity, lineno) ==
    JDict([name |-> JStr("f"), complexity |-> JNum(complexity), lineno |-> JNum(lineno),
           endline |-> JNum(lineno + 4)])

\* A dict of one or of two files.
OneFile(file, value) == JDict([k \in {file} |-> value])
TwoFiles(a, b) == JDict([k \in Files |-> IF k = "a.py" THEN a ELSE b])

\* What radon prints for each of its three invocations.
RadonPayloads(step) ==
    {NotJson, JNull, JList(<<>>), EmptyDict}
    \cup
    CASE step = "cc" ->
            {OneFile("a.py", v) :
               v \in {JList(<<>>), JList(<<FunctionRecord(12, 3)>>),
                      JList(<<FunctionRecord(5, 1), FunctionRecord(16, 5)>>),
                      JList(<<FunctionRecord(12, 0)>>), JList(<<JNum(7)>>),
                      JList(<<JDict([complexity |-> JStr("x")])>>),
                      JList(<<JDict([complexity |-> JNum(11)])>>),
                      JDict([error |-> JStr("x")])}}
            \cup {TwoFiles(JList(<<FunctionRecord(12, 3)>>), JList(<<FunctionRecord(16, 5)>>))}
      [] step = "mi" ->
            {OneFile("a.py", v) : v \in {JNum(35), JNum(55), JNum(70), JDict([error |-> JStr("x")])}}
            \cup {TwoFiles(JNum(45), JNum(59))}
      [] step = "raw" ->
            {OneFile("a.py", v) :
               v \in {JDict([sloc |-> JNum(100)]), JDict([sloc |-> JNum(300)]),
                      JDict([sloc |-> JNum(600)]), JDict([error |-> JStr("x")]),
                      JDict([sloc |-> JStr("x")]), JNum(7)}}
            \cup {TwoFiles(JDict([sloc |-> JNum(201)]), JDict([sloc |-> JNum(200)]))}

\* What the sandbox hands back for an invocation of radon: on failure the
\* error text, which is the tool's stderr or stdout.
RadonSandboxResults(step) ==
    [success : {TRUE}, output : RadonPayloads(step)]
    \cup [success : {FALSE},
          output : {JStr("error"),
                    CHOOSE p \in RadonPayloads(step) :
                       RadonStepAlways(step, [success |-> FALSE, output |-> p]).ok
                       /\ RadonStepAlways(step, [success |-> FALSE, output |-> p]).value # <<>>}]

\* A duplicate as jscpd reports it.
Duplicate(first, second, lines, tokens, first_start, second_start) ==
    JDict([format |-> JStr("python"), lines |-> JNum(lines), tokens |-> JNum(tokens),
           firstFile |-> JDict([name |-> JStr(first), start |-> JNum(first_start),
                                end |-> JNum(first_start + lines)]),
           secondFile |-> JDict([name |-> JStr(second), start |-> JNum(second_start),
                                 end |-> JNum(second_start + lines)])])

\* Items of a report's "duplicates": duplicates, and items that are not.
JscpdItems ==
    {Duplicate("a.py", "b.py", 6, 60, 1, 8), Duplicate("b.py", "a.py", 25, 40, 3, 3),
     Duplicate("a.py", "a.py", 60, 250, 2, 70),
     Duplicate("a.py", "b.py", 6, 60, 0, 8),
     JDict([lines |-> JNum(6), tokens |-> JNum(60),
            firstFile |-> JDict([name |-> JStr("a.py")]),
            secondFile |-> JDict([name |-> JStr("b.py")])]),
     JDict([lines |-> JNum(6), tokens |-> JNum(60),
            firstFile |-> JDict([name |-> JStr("a.py"), start |-> JNum(1)])]),
     JDict([lines |-> JStr("x"), tokens |-> JNum(60),
            firstFile |-> JDict([name |-> JStr("a.py"), start |-> JNum(1)]),
            secondFile |-> JDict([name |-> JStr("b.py"), start |-> JNum(1)])]),
     JNum(7)}

\* The text of jscpd-report.json.
JscpdReports ==
    {NotJson, JNull, EmptyDict, JDict([duplicates |-> JNull])}
    \cup {JDict([duplicates |-> JList(l)]) : l \in SeqsUpTo(JscpdItems, MaxRecords)}

JscpdSandboxResults == [success : BOOLEAN, output : {JStr("text")}]

\* The concatenation of the lists of a sequence.
RECURSIVE Flatten(_)
Flatten(parts) == IF parts = <<>> THEN <<>> ELSE Head(parts) \o Flatten(Tail(parts))

InitStructure ==
    /\ sa_pc = "start"
    /\ sa_tool \in StructureTools
    /\ sa_sandbox = <<>>
    /\ sa_report = NoReport
    /\ sa_parts = <<>>
    /\ sa_result = NoScores
    /\ ScoreIdle
    /\ EngineIdle
    /\ CommandIdle
    /\ AdapterIdle
    /\ ScorerIdle
    /\ MappingIdle
    /\ ServiceIdle

\* One invocation of radon inside RadonAnalyzer.analyze: issues.extend(...) of
\* what the step returns; `except Exception` ends analyze with the issues of
\* the earlier steps.
RadonInvoke(step, next_pc) ==
    \E sandbox \in RadonSandboxResults(step) :
       LET r == RadonStep(step, sandbox)
       IN  /\ sa_sandbox' = Append(sa_sandbox, sandbox)
           /\ sa_parts' = Append(sa_parts, IF r.ok THEN r.value ELSE <<>>)
           /\ sa_pc' = IF r.ok THEN next_pc ELSE "returned"
           /\ sa_result' = IF sa_pc' = "returned" THEN Flatten(sa_parts') ELSE sa_result
           /\ UNCHANGED <<sa_tool, sa_report, scoreVars, engineVars, commandVars,
                          adapterVars, scorerVars, normalizeVars, mappingVars,
                   serviceVars>>

AnalyzeCyclomaticComplexity ==
    sa_tool = "radon" /\ sa_pc = "start" /\ RadonInvoke("cc", "cc_done")

AnalyzeMaintainabilityIndex ==
    sa_tool = "radon" /\ sa_pc = "cc_done" /\ RadonInvoke("mi", "mi_done")

AnalyzeRawMetrics ==
    sa_tool = "radon" /\ sa_pc = "mi_done" /\ RadonInvoke("raw", "returned")

\* success = self._run_tool_safely(command, project_path): jscpd runs and
\* leaves, or does not leave, jscpd-report.json in the output directory.
RunJscpd ==
    /\ sa_tool = "jscpd"
    /\ sa_pc = "start"
    /\ \E sandbox \in JscpdSandboxResults : sa_sandbox' = <<sandbox>>
    /\ sa_report' \in JscpdReports \cup {NoReport}
    /\ sa_pc' = "ran"
    /\ UNCHANGED <<sa_tool, sa_parts, sa_result, scoreVars, engineVars, commandVars,
                   adapterVars, scorerVars, normalizeVars, mappingVars,
                   serviceVars>>

\* The rest of JSCPDAnalyzer.analyze.
ParseReport ==
    /\ sa_tool = "jscpd"
    /\ sa_pc = "ran"
    /\ sa_parts' = <<JscpdAnalyze(sa_sandbox[1], sa_report)>>
    /\ sa_result' = sa_parts'[1]
    /\ sa_pc' = "returned"
    /\ UNCHANGED <<sa_tool, sa_sandbox, sa_report, scoreVars, engineVars, commandVars,
                   adapterVars, scorerVars, normalizeVars, mappingVars,
                   serviceVars>>

NextStructure ==
    \/ AnalyzeCyclomaticComplexity
    \/ AnalyzeMaintainabilityIndex
    \/ AnalyzeRawMetrics
    \/ RunJscpd
    \/ ParseReport

SpecStructure == InitStructure /\ [][NextStructure]_vars

\* The four adapters.
InitAdapters == InitAdapter \/ InitStructure
NextAdapters == NextAdapter \/ NextStructure
SpecAdapters == InitAdapters /\ [][NextAdapters]_vars

(***************************************************************************)
(* The claims about the four adapters.                                     *)
(***************************************************************************)
\* C11: for each of the four adapters, an invocation for which the sandbox
\* reported failure (success = False) contributes no issue to the adapter's
\* result: the Ruff and Bandit adapters return the empty list, and the part
\* of the Radon or JSCPD result that comes from that invocation is empty.
C11_FailedRunContributesNothing ==
    /\ (ad_pc \in {"returned", "raised"} /\ ad_runs > 0 /\ ~ad_sandbox.success) =>
          (ad_pc = "returned" /\ ad_result.value = <<>>)
    /\ \A i \in 1..Len(sa_parts) : ~sa_sandbox[i].success => sa_parts[i] = <<>>
    /\ sa_pc = "returned" => sa_result = Flatten(sa_parts)

\* The version probe did not succeed: a non-zero exit code, a timeout, or a
\* binary that cannot be started.
ProbeFailed(probe) ==
    \/ probe.fate = "exited" /\ probe.exit # 0
    \/ probe.fate \in {"TimeoutExpired", "FileNotFoundError", "PermissionError"}

\* C12: when the availability check of RuffAnalyzer.analyze or
\* BanditAnalyzer.analyze fails, analyze returns the empty list, raises
\* nothing and never calls run_command for the analysis command.
C12_UnavailableToolReturnsEmpty ==
    (ad_pc \notin {"idle", "start"} /\ ProbeFailed(ad_probe)) =>
        /\ ad_pc = "returned"
        /\ ad_result = Ok(<<>>)
        /\ ad_runs = 0

\* A probe that timed out ended analyze with the empty list.
C12_Witness ==
    /\ ad_pc = "returned"
    /\ ad_probe.fate = "TimeoutExpired"
    /\ ad_result = Ok(<<>>)
    /\ ad_runs = 0

\* The severity the combination of a Bandit severity and confidence stands for.
StatedBanditSeverity(severity, confidence) ==
    CASE severity = "HIGH" /\ confidence = "HIGH" -> "Critical"
      [] severity = "HIGH" /\ confidence # "HIGH" -> "High"
      [] severity = "MEDIUM" /\ confidence = "HIGH" -> "High"
      [] severity = "MEDIUM" /\ confidence # "HIGH" -> "Medium"
      [] severity = "LOW" -> "Low"

\* The severities in rising order.
SeverityRank(severity) ==
    CASE severity = "Low" -> 1
      [] severity = "Medium" -> 2
      [] severity = "High" -> 3
      [] severity = "Critical" -> 4

\* The results of a Bandit payload all of whose records are well formed and
\* carry a severity and a confidence of LOW, MEDIUM or HIGH.
BanditFindings ==
    IF /\ ad_tool = "bandit" /\ ad_pc = "returned" /\ ad_runs > 0 /\ ad_sandbox.success
       /\ PayloadRecords("bandit", ad_sandbox.output).ok
       /\ \A i \in 1..Len(PayloadRecords("bandit", ad_sandbox.output).value) :
             LET item == PayloadRecords("bandit", ad_sandbox.output).value[i]
             IN  /\ WellFormedRecord("bandit", item)
                 /\ item.v["issue_severity"].v \in BanditLevels
                 /\ item.v["issue_confidence"].v \in BanditLevels
    THEN PayloadRecords("bandit", ad_sandbox.output).value
    ELSE <<>>

\* C13: each finding with severity s and confidence c in {LOW, MEDIUM, HIGH}
\* gets the severity of the combination: (HIGH, HIGH) Critical, (HIGH, other)
\* High, (MEDIUM, HIGH) High, (MEDIUM, other) Medium, (LOW, any) Low; two
\* findings that differ in confidence only are at most one level apart, and a
\* LOW finding is never above Low.
C13_BanditSeverityFromCombination ==
    BanditFindings # <<>> =>
        /\ Len(ad_result.value) = Len(BanditFindings)
        /\ \A i \in 1..Len(BanditFindings) :
              LET s == BanditFindings[i].v["issue_severity"].v
                  c == BanditFindings[i].v["issue_confidence"].v
              IN  /\ ad_result.value[i].severity = StatedBanditSeverity(s, c)
                  /\ s = "LOW" => ad_result.value[i].severity = "Low"
        /\ \A i, j \in 1..Len(BanditFindings) :
              BanditFindings[i].v["issue_severity"] = BanditFindings[j].v["issue_severity"] =>
                 SeverityRank(ad_result.value[j].severity)
                    - SeverityRank(ad_result.value[i].severity) <= 1

\* A MEDIUM finding of LOW confidence and one of HIGH confidence were mapped.
C13_Witness ==
    /\ Len(BanditFindings) = 2
    /\ BanditFindings[1].v["issue_severity"].v = "MEDIUM"
    /\ BanditFindings[1].v["issue_confidence"].v = "LOW"
    /\ BanditFindings[2].v["issue_severity"].v = "MEDIUM"
    /\ BanditFindings[2].v["issue_confidence"].v = "HIGH"
    /\ ad_result.value[1].severity = "Medium"
    /\ ad_result.value[2].severity = "High"

(***************************************************************************)
(* _map_ruff_severity of the two Ruff adapters, app/libs/analyzers and     *)
(* app/analyzers/quality, on rule codes.  A rule code is the sequence of   *)
(* its characters.                                                         *)
(***************************************************************************)
LowerLetters ==
    <<"a", "b", "c", "d", "e", "f", "g", "h", "i", "j", "k", "l", "m",
      "n", "o", "p", "q", "r", "s", "t", "u", "v", "w", "x", "y", "z">>
UpperLetters ==
    <<"A", "B", "C", "D", "E", "F", "G", "H", "I", "J", "K", "L", "M",
      "N", "O", "P", "Q", "R", "S", "T", "U", "V", "W", "X", "Y", "Z">>
Digits == {"0", "1", "2", "3", "4", "5", "6", "7", "8", "9"}

\* c.upper() of one character.
UpperChar(c) ==
    IF \E i \in 1..26 : LowerLetters[i] = c
    THEN UpperLetters[CHOOSE i \in 1..26 : LowerLetters[i] = c]
    ELSE c

\* ''.join(chars)
RECURSIVE JoinChars(_)
JoinChars(chars) == IF chars = <<>> THEN "" ELSE Head(chars) \o JoinChars(Tail(chars))

\* severity_map of app/analyzers/quality RuffAnalyzer._map_ruff_severity; of a
\* key written twice the later value counts.
QualitySeverityMap(prefix) ==
    CASE prefix \in {"E", "F", "B", "S", "EXE", "FIX", "PL", "PT", "PGH"} -> Ok("High")
      [] prefix \in {"W", "A", "EM", "FA", "PD", "RET", "RSE", "RUF", "SIM", "TCH", "ARG",
                     "PTH", "NPY", "AIR"} -> Ok("Medium")
      [] prefix \in {"C", "COM", "D", "DTZ", "FBT", "FLY", "G", "I", "ICN", "INP", "ISC",
                     "N", "PIE", "Q", "TID", "ERA"} -> Ok("Low")
      [] OTHER -> Raise("KeyError")

\* app/libs/analyzers RuffAnalyzer._map_ruff_severity(code), code a str:
\* the table is read at code[0].upper().
LibsMapRuffSeverity(code) ==
    IF code = <<>> THEN "Medium"
    ELSE LET code_prefix == UpperChar(code[1])
             hit == RuffSeverityMap(code_prefix)
         IN  IF hit.ok THEN hit.value ELSE "Medium"

\* app/analyzers/quality RuffAnalyzer._map_ruff_severity(code), code a str:
\* the table is read at the code without its digits.
QualityMapRuffSeverity(code) ==
    LET code_prefix == JoinChars(SelectSeq(code, LAMBDA c : c \notin Digits))
        hit == QualitySeverityMap(code_prefix)
    IN  IF hit.ok THEN hit.value ELSE "Low"

RuffAdapters == {"libs", "quality"}

\* Rule codes: known one-letter and longer prefixes, unknown prefixes, lower
\* case, the empty string.
RuffCodes ==
    {<<>>, <<"E", "5", "0", "1">>, <<"e", "5", "0", "1">>, <<"S", "1", "0", "1">>,
     <<"N", "8", "0", "2">>, <<"U", "P", "0", "0", "6">>,
     <<"P", "E", "R", "F", "4", "0", "1">>, <<"X", "9", "9", "9">>,
     <<"Z", "Z", "9", "9", "9">>, <<"9">>}

\* The keys of severity_map, each the sequence of its characters.
SeverityMapKeys(adapter) ==
    IF adapter = "libs"
    THEN {<<"E">>, <<"W">>, <<"F">>, <<"C">>, <<"N">>, <<"D">>, <<"S">>,
          <<"B">>, <<"A">>, <<"T">>, <<"Q">>, <<"U", "P">>,
          <<"P", "E", "R", "F">>, <<"R", "U", "F">>, <<"I">>, <<"P", "L">>,
          <<"P", "T">>, <<"S", "I", "M">>, <<"T", "I", "D">>,
          <<"T", "C", "H">>, <<"A", "R", "G">>, <<"P", "T", "H">>,
          <<"E", "R", "A">>, <<"P", "D">>, <<"P", "G", "H">>,
          <<"F", "L", "Y">>, <<"N", "P", "Y">>, <<"A", "I", "R">>,
          <<"T", "R", "I", "O">>, <<"D", "J">>}
    ELSE {<<"E">>, <<"F">>, <<"W">>, <<"C">>, <<"B">>, <<"S">>, <<"A">>,
          <<"C", "O", "M">>, <<"D">>, <<"D", "T", "Z">>, <<"E", "M">>,
          <<"E", "X", "E">>, <<"F", "A">>, <<"F", "B", "T">>,
          <<"F", "I", "X">>, <<"F", "L", "Y">>, <<"G">>, <<"I">>,
          <<"I", "C", "N">>, <<"I", "N", "P">>, <<"I", "S", "C">>, <<"N">>,
          <<"P", "D">>, <<"P", "G", "H">>, <<"P", "I", "E">>, <<"P", "L">>,
          <<"P", "T">>, <<"P", "T", "H">>, <<"Q">>, <<"R", "E", "T">>,
          <<"R", "S", "E">>, <<"R", "U", "F">>, <<"S", "I", "M">>,
          <<"T", "I", "D">>, <<"T", "C", "H">>, <<"A", "R", "G">>,
          <<"E", "R", "A">>, <<"N", "P", "Y">>, <<"A", "I", "R">>}

\* The severity the table of the adapter lists for a key.
ListedSeverity(adapter, key) ==
    IF adapter = "libs" THEN RuffSeverityMap(JoinChars(key)).value
    ELSE QualitySeverityMap(JoinChars(key)).value

\* Rule codes made of a key of the table and digits.
KeyDigits == {<<"1">>, <<"4", "0", "1">>}
KeyCodes(adapter) == {key \o digits : key \in SeverityMapKeys(adapter), digits \in KeyDigits}

InitMapping ==
    /\ mp_pc = "input"
    /\ mp_adapter \in RuffAdapters
    /\ mp_codes \in SeqsUpTo(RuffCodes, MaxCodes)
                    \cup {<<code>> : code \in KeyCodes(mp_adapter)}
    /\ mp_result = <<>>
    /\ ScoreIdle
    /\ EngineIdle
    /\ CommandIdle
    /\ AdapterIdle
    /\ StructureIdle
    /\ ScorerIdle
    /\ ServiceIdle

\* severity = self._map_ruff_severity(code), for the next code.
MapCode ==
    /\ mp_pc = "input"
    /\ Len(mp_result) < Len(mp_codes)
    /\ LET code == mp_codes[Len(mp_result) + 1]
       IN  mp_result' = Append(mp_result,
                               IF mp_adapter = "libs" THEN LibsMapRuffSeverity(code)
                               ELSE QualityMapRuffSeverity(code))
    /\ mp_pc' = IF Len(mp_result') = Len(mp_codes) THEN "mapped" ELSE "input"
    /\ UNCHANGED <<mp_adapter, mp_codes, scoreVars, engineVars, commandVars, adapterVars,
                   structureVars, scorerVars, normalizeVars,
                   serviceVars>>

NextMapping == MapCode

SpecMapping == InitMapping /\ [][NextMapping]_vars

\* The keys of the severity table of an adapter.
InSeverityTable(adapter, prefix) ==
    IF adapter = "libs" THEN RuffSeverityMap(prefix).ok ELSE QualitySeverityMap(prefix).ok

\* The prefix of a rule code is not in the table, whether the prefix is taken
\* to be the first character or the characters before the digits.
UnknownPrefix(adapter, code) ==
    \/ code = <<>>
    \/ /\ ~InSeverityTable(adapter, UpperChar(code[1]))
       /\ ~InSeverityTable(adapter, JoinChars(SelectSeq(code, LAMBDA c : c \notin Digits)))
       /\ ~InSeverityTable(adapter, code[1])

\* C14: _map_ruff_severity returns one of Critical, High, Medium, Low for every
\* rule-code string, the empty string and unknown prefixes included, and a
\* code whose prefix is not in the severity table gives Medium.
C14_RuffSeverityTotal ==
    \A i \in 1..Len(mp_result) :
       /\ mp_result[i] \in IssueSeverity
       /\ UnknownPrefix(mp_adapter, mp_codes[i]) => mp_result[i] = "Medium"

\* The code is the key followed by one or more digits.
KeyThenDigits(code, key) ==
    /\ Len(code) > Len(key)
    /\ SubSeq(code, 1, Len(key)) = key
    /\ \A i \in (Len(key) + 1)..Len(code) : code[i] \in Digits

\* C30: for every key of the adapter's severity table, of one letter or of
\* more, _map_ruff_severity maps a rule code made of the key followed by digits
\* to the severity the table lists for the key.
C30_TableKeysMapped ==
    \A i \in 1..Len(mp_result) :
        \A key \in SeverityMapKeys(mp_adapter) :
            KeyThenDigits(mp_codes[i], key) =>
                mp_result[i] = ListedSeverity(mp_adapter, key)

(***************************************************************************)
(* The claims about the duplication adapter.                               *)
(***************************************************************************)
\* One side of a duplicate as jscpd writes it: a dict with a file name and,
\* when it has a start line, a positive one.
WellFormedSide(item, side) ==
    HasKey(item, side) =>
        /\ IsDict(item.v[side])
        /\ HasKey(item.v[side], "name") => item.v[side].v["name"].t = "str"
        /\ HasKey(item.v[side], "start") => IsPositiveInt(item.v[side].v["start"])

\* A report as jscpd writes it: a dict whose "duplicates" is a list of dicts
\* with numeric "lines" and "tokens" and two well-formed sides.
WellFormedReport(report) ==
    /\ IsDict(report)
    /\ HasKey(report, "duplicates")
    /\ report.v["duplicates"].t = "list"
    /\ \A i \in 1..Len(report.v["duplicates"].v) :
          LET item == report.v["duplicates"].v[i]
          IN  /\ IsDict(item)
              /\ HasKey(item, "lines") => item.v["lines"].t = "num"
              /\ HasKey(item, "tokens") => item.v["tokens"].t = "num"
              /\ WellFormedSide(item, "firstFile")
              /\ WellFormedSide(item, "secondFile")

\* The name of one side of a duplicate, "" when it has none.
SideName(item, side) ==
    IF HasKey(item, side) /\ HasKey(item.v[side], "name") THEN item.v[side].v["name"].v ELSE ""

\* The duplicate pairs of a report: the duplicates that name both files.
DuplicatePairs(report) ==
    SelectSeq(report.v["duplicates"].v,
              LAMBDA item : SideName(item, "firstFile") # "" /\ SideName(item, "secondFile") # "")

\* jscpd ran with success and left a well-formed report, which analyze parsed.
ReportParsed ==
    /\ sa_tool = "jscpd"
    /\ sa_pc = "returned"
    /\ sa_sandbox[1].success
    /\ sa_report # NoReport
    /\ WellFormedReport(sa_report)

ValidIssue(issue) ==
    /\ issue.category \in IssueCategory
    /\ issue.severity \in IssueSeverity
    /\ issue.line_number > 0

\* The same for an issue dict of the orchestrator, which holds the line as
\* the tool printed it.
ValidEngineIssue(issue) ==
    /\ issue.category \in IssueCategory
    /\ issue.severity \in IssueSeverity
    /\ IsPositiveInt(issue.line_number)

\* C16: every issue in the report of run_analysis and in the list an adapter
\* returns has a category and a severity of the closed sets and a line number
\* above 0, whatever the tools printed (line 0 included).  No issue of these
\* results carries an end_line.
C16_IssuesWellFormed ==
    /\ ra_pc = "returned" =>
          \A i \in 1..Len(ra_report.issues) : ValidEngineIssue(ra_report.issues[i])
    /\ ad_pc = "returned" =>
          \A i \in 1..Len(ad_result.value) : ValidIssue(ad_result.value[i])
    /\ sa_pc = "returned" =>
          \A i \in 1..Len(sa_result) : ValidIssue(sa_result[i])

(***************************************************************************)
(* app/libs/structure_scorer.py: StructureScorer.  Its floats are modelled *)
(* as exact fractions [n |-> numerator, d |-> denominator], d > 0, in      *)
(* lowest terms; rounding of the floating-point operations is left out.    *)
(***************************************************************************)
Abs(x) == IF x < 0 THEN -x ELSE x

RECURSIVE GCD(_, _)
GCD(a, b) == IF b = 0 THEN a ELSE GCD(b, a % b)

\* The fraction n/d, d # 0, in lowest terms.
Frac(n, d) ==
    LET g == GCD(Abs(n), Abs(d))
        sign == IF d < 0 THEN -1 ELSE 1
    IN  [n |-> sign * (n \div g), d |-> sign * (d \div g)]

FromInt(k) == [n |-> k, d |-> 1]
LCM(a, b) == (a \div GCD(a, b)) * b
FAdd(x, y) ==
    LET l == LCM(x.d, y.d) IN Frac(x.n * (l \div x.d) + y.n * (l \div y.d), l)
FSub(x, y) ==
    LET l == LCM(x.d, y.d) IN Frac(x.n * (l \div x.d) - y.n * (l \div y.d), l)
FMul(x, y) == Frac(x.n * y.n, x.d * y.d)
FDiv(x, y) == Frac(x.n * y.d, x.d * y.n)
FLe(x, y) == x.n * y.d <= y.n * x.d
FLt(x, y) == x.n * y.d < y.n * x.d
FMin(x, y) == IF FLe(x, y) THEN x ELSE y
FMax(x, y) == IF FLe(x, y) THEN y ELSE x

\* sorted(values)
RECURSIVE Insert(_, _)
Insert(x, sorted) ==
    IF sorted = <<>> THEN <<x>>
    ELSE IF FLe(x, Head(sorted)) THEN <<x>> \o sorted
    ELSE <<Head(sorted)>> \o Insert(x, Tail(sorted))
RECURSIVE Sorted(_)
Sorted(values) == IF values = <<>> THEN <<>> ELSE Insert(Head(values), Sorted(Tail(values)))

\* np.percentile(values, q) for a list that is not empty: linear
\* interpolation between the two order statistics around q/100 * (n - 1).
Percentile(values, q) ==
    LET sorted == Sorted(values)
        n == Len(values)
        lower == (q * (n - 1)) \div 100
        fraction == Frac(q * (n - 1) - 100 * lower, 100)
    IN  IF lower + 2 > n THEN sorted[lower + 1]
        ELSE FAdd(sorted[lower + 1],
                  FMul(fraction, FSub(sorted[lower + 2], sorted[lower + 1])))

\* A plausible slip: the band of a single value starts at 0.
CalculatePercentilesFromZero(values) ==
    IF values = <<>> THEN [p5 |-> FromInt(0), p95 |-> FromInt(0)]
    ELSE IF Len(values) = 1 THEN [p5 |-> FromInt(0), p95 |-> values[1]]
    ELSE [p5 |-> Percentile(values, 5), p95 |-> Percentile(values, 95)]

\* StructureScorer._calculate_percentiles(values); p25, p50 and p75 are
\* computed and never read.
CalculatePercentiles(values) ==
    IF values = <<>> THEN [p5 |-> FromInt(0), p95 |-> FromInt(0)]
    ELSE [p5 |-> Percentile(values, 5), p95 |-> Percentile(values, 95)]

\* A plausible slip: the maintainability index is normalized like the others.
NormalizeMetricNotInverted(value, percentiles, higher_is_worse) ==
    IF percentiles.p95 = percentiles.p5 THEN FromInt(0)
    ELSE IF FLe(value, percentiles.p5) THEN FromInt(0)
    ELSE IF FLe(percentiles.p95, value) THEN FromInt(1)
    ELSE FDiv(FSub(value, percentiles.p5), FSub(percentiles.p95, percentiles.p5))

\* StructureScorer._normalize_metric(value, percentiles, higher_is_worse)
NormalizeMetric(value, percentiles, higher_is_worse) ==
    IF percentiles.p95 = percentiles.p5 THEN FromInt(0)
    ELSE IF higher_is_worse
    THEN (IF FLe(value, percentiles.p5) THEN FromInt(0)
          ELSE IF FLe(percentiles.p95, value) THEN FromInt(1)
          ELSE FDiv(FSub(value, percentiles.p5), FSub(percentiles.p95, percentiles.p5)))
    ELSE (IF FLe(percentiles.p95, value) THEN FromInt(0)
          ELSE IF FLe(value, percentiles.p5) THEN FromInt(1)
          ELSE FSub(FromInt(1),
                    FDiv(FSub(value, percentiles.p5), FSub(percentiles.p95, percentiles.p5))))

\* The entry _aggregate_metrics_by_file makes for a file it meets first.
NewFileData ==
    [issues_count |-> 0, complexity_total |-> 0, complexity_count |-> 0,
     maintainability_index |-> JNull, sloc |-> 0, duplicate_tokens |-> 0,
     duplicates_count |-> 0, severity_penalty |-> 0]

\* severity_penalties.get(issue.severity.value, 0) of _aggregate_metrics_by_file
SeverityPenalty(severity) ==
    CASE severity = "Critical" -> 20
      [] severity = "High" -> 10
      [] severity = "Medium" -> 5
      [] severity = "Low" -> 1
      [] OTHER -> 0

\* A plausible slip: the penalty of the last issue replaces the sum.
AddIssueLastPenalty(file_data, issue) ==
    LET metrics == issue.metrics
        has == metrics # JNull
    IN  [issues_count |-> file_data.issues_count + 1,
         complexity_total |->
            IF has /\ metrics.cyclomatic_complexity # JNull
            THEN file_data.complexity_total + metrics.cyclomatic_complexity.v
            ELSE file_data.complexity_total,
         complexity_count |->
            IF has /\ metrics.cyclomatic_complexity # JNull
            THEN file_data.complexity_count + 1 ELSE file_data.complexity_count,
         maintainability_index |->
            IF has /\ metrics.maintainability_index # JNull
            THEN metrics.maintainability_index ELSE file_data.maintainability_index,
         sloc |-> IF has /\ metrics.sloc # JNull
                  THEN Max(file_data.sloc, metrics.sloc.v) ELSE file_data.sloc,
         duplicate_tokens |->
            IF has /\ metrics.duplicate_tokens # JNull
            THEN file_data.duplicate_tokens + metrics.duplicate_tokens.v
            ELSE file_data.duplicate_tokens,
         duplicates_count |->
            IF has /\ metrics.duplicate_tokens # JNull
            THEN file_data.duplicates_count + 1 ELSE file_data.duplicates_count,
         severity_penalty |-> SeverityPenalty(issue.severity)]

\* The body of the loop of _aggregate_metrics_by_file: one issue added to the
\* entry of its file.
AddIssue(file_data, issue) ==
    LET metrics == issue.metrics
        has == metrics # JNull
    IN  [issues_count |-> file_data.issues_count + 1,
         complexity_total |->
            IF has /\ metrics.cyclomatic_complexity # JNull
            THEN file_data.complexity_total + metrics.cyclomatic_complexity.v
            ELSE file_data.complexity_total,
         complexity_count |->
            IF has /\ metrics.cyclomatic_complexity # JNull
            THEN file_data.complexity_count + 1 ELSE file_data.complexity_count,
         maintainability_index |->
            IF has /\ metrics.maintainability_index # JNull
            THEN metrics.maintainability_index ELSE file_data.maintainability_index,
         sloc |-> IF has /\ metrics.sloc # JNull
                  THEN Max(file_data.sloc, metrics.sloc.v) ELSE file_data.sloc,
         duplicate_tokens |->
            IF has /\ metrics.duplicate_tokens # JNull
            THEN file_data.duplicate_tokens + metrics.duplicate_tokens.v
            ELSE file_data.duplicate_tokens,
         duplicates_count |->
            IF has /\ metrics.duplicate_tokens # JNull
            THEN file_data.duplicates_count + 1 ELSE file_data.duplicates_count,
         severity_penalty |-> file_data.severity_penalty + SeverityPenalty(issue.severity)]

\* StructureScorer._aggregate_metrics_by_file(issues): the dict file_metrics,
\* as the list of its keys in insertion order and the entry of each key.
RECURSIVE AggregateMetricsByFile(_, _, _)
AggregateMetricsByFile(list, i, file_metrics) ==
    IF i > Len(list) THEN file_metrics
    ELSE LET issue == list[i]
             path == issue.file_path
             known == path \in DOMAIN file_metrics.data
             file_data == IF known THEN file_metrics.data[path] ELSE NewFileData
         IN  AggregateMetricsByFile(list, i + 1,
                [keys |-> IF known THEN file_metrics.keys
                          ELSE Append(file_metrics.keys, path),
                 data |-> [p \in DOMAIN file_metrics.data \cup {path} |->
                             IF p = path THEN AddIssue(file_data, issue)
                             ELSE file_metrics.data[p]]])

NoFileMetrics == [keys |-> <<>>, data |-> [p \in {} |-> NewFileData]]

\* avg_complexity = complexity_total / complexity_count
AvgComplexity(file_data) == Frac(file_data.complexity_total, file_data.complexity_count)

\* all_complexities, all_mis, all_slocs, all_duplicates: the values of a
\* metric over the files that have one.
HasMetric(file_data, metric) ==
    CASE metric = "complexity" -> file_data.complexity_count > 0
      [] metric = "maintainability" -> file_data.maintainability_index # JNull
      [] metric = "size" -> file_data.sloc > 0
      [] metric = "duplication" -> file_data.duplicate_tokens > 0
MetricValue(file_data, metric) ==
    CASE metric = "complexity" -> AvgComplexity(file_data)
      [] metric = "maintainability" -> FromInt(file_data.maintainability_index.v)
      [] metric = "size" -> FromInt(file_data.sloc)
      [] metric = "duplication" -> FromInt(file_data.duplicate_tokens)
RECURSIVE AllValues(_, _, _)
AllValues(file_metrics, metric, i) ==
    IF i > Len(file_metrics.keys) THEN <<>>
    ELSE LET file_data == file_metrics.data[file_metrics.keys[i]]
         IN  (IF HasMetric(file_data, metric) THEN <<MetricValue(file_data, metric)>>
              ELSE <<>>) \o AllValues(file_metrics, metric, i + 1)

\* score_components[metric] of one file.
ScoreComponent(file_metrics, file_data, metric) ==
    IF HasMetric(file_data, metric)
    THEN NormalizeMetric(MetricValue(file_data, metric),
                         CalculatePercentiles(AllValues(file_metrics, metric, 1)),
                         metric # "maintainability")
    ELSE FromInt(0)

\* self.weights and the two literal weights of final_score, in hundredths.
Weights ==
    [complexity |-> 35, maintainability |-> 20, duplication |-> 15, size |-> 10,
     severity |-> 10]

\* min(file_data['severity_penalty'] / 50.0, 1.0)
SeverityTerm(file_data) == FMin(Frac(file_data.severity_penalty, 50), FromInt(1))

\* final_score of one file.
FinalScore(components, file_data) ==
    FAdd(FAdd(FAdd(FMul(components.complexity, Frac(Weights.complexity, 100)),
                   FMul(components.maintainability, Frac(Weights.maintainability, 100))),
              FAdd(FMul(components.duplication, Frac(Weights.duplication, 100)),
                   FMul(components.size, Frac(Weights.size, 100)))),
         FMul(SeverityTerm(file_data), Frac(Weights.severity, 100)))

\* The entry of file_scores for one file; size_score is score_components['size'],
\* which the code drops after final_score.
FileScore(file_metrics, path) ==
    LET file_data == file_metrics.data[path]
        components ==
            [metric \in {"complexity", "maintainability", "duplication", "size"} |->
                ScoreComponent(file_metrics, file_data, metric)]
    IN  [file_path |-> path,
         score |-> FMin(FinalScore(components, file_data), FromInt(1)),
         issues_count |-> file_data.issues_count,
         complexity_score |-> components.complexity,
         maintainability_score |-> components.maintainability,
         duplication_score |-> components.duplication,
         size_score |-> components.size,
         sloc |-> file_data.sloc]

\* sorted(file_scores, key=score, reverse=True): stable, entries of equal
\* score keep their order.
RECURSIVE InsertByScore(_, _)
InsertByScore(entry, sorted) ==
    IF sorted = <<>> THEN <<entry>>
    ELSE IF FLt(Head(sorted).score, entry.score) THEN <<entry>> \o sorted
    ELSE <<Head(sorted)>> \o InsertByScore(entry, Tail(sorted))
RECURSIVE SortByScore(_, _)
SortByScore(entries, k) ==
    IF k = 0 THEN <<>> ELSE InsertByScore(entries[k], SortByScore(entries, k - 1))

\* A plausible slip: file_scores is returned in the order of the files.
CalculateFileScoresUnsorted(file_metrics) ==
    [i \in 1..Len(file_metrics.keys) |-> FileScore(file_metrics, file_metrics.keys[i])]

\* StructureScorer._calculate_file_scores(file_metrics)
CalculateFileScores(file_metrics) ==
    SortByScore([i \in 1..Len(file_metrics.keys) |->
                   FileScore(file_metrics, file_metrics.keys[i])],
                Len(file_metrics.keys))

\* A plausible slip: the tiers are tested from the lower threshold, so that no
\* file is ever CRITICAL.
IdentifyHotspotsHighFirst(file_scores) ==
    LET hot == SelectSeq(file_scores, LAMBDA e : FLt(Frac(3, 10), e.score))
    IN  [i \in 1..Len(hot) |->
           [file_path |-> hot[i].file_path,
            risk_score |-> hot[i].score,
            priority |-> IF FLt(Frac(5, 10), hot[i].score) THEN "HIGH"
                         ELSE IF FLt(Frac(7, 10), hot[i].score) THEN "CRITICAL"
                         ELSE "MEDIUM",
            issues_count |-> hot[i].issues_count,
            complexity_score |-> hot[i].complexity_score,
            maintainability_score |-> hot[i].maintainability_score,
            duplication_score |-> hot[i].duplication_score,
            sloc |-> hot[i].sloc]]

\* StructureScorer._identify_hotspots(file_scores)
IdentifyHotspots(file_scores) ==
    LET hot == SelectSeq(file_scores, LAMBDA e : FLt(Frac(3, 10), e.score))
    IN  [i \in 1..Len(hot) |->
           [file_path |-> hot[i].file_path,
            risk_score |-> hot[i].score,
            priority |-> IF FLt(Frac(7, 10), hot[i].score) THEN "CRITICAL"
                         ELSE IF FLt(Frac(5, 10), hot[i].score) THEN "HIGH"
                         ELSE "MEDIUM",
            issues_count |-> hot[i].issues_count,
            complexity_score |-> hot[i].complexity_score,
            maintainability_score |-> hot[i].maintainability_score,
            duplication_score |-> hot[i].duplication_score,
            sloc |-> hot[i].sloc]]

\* sum(file_data['score'] for file_data in file_scores)
RECURSIVE TotalRisk(_, _)
TotalRisk(file_scores, k) ==
    IF k = 0 THEN FromInt(0) ELSE FAdd(TotalRisk(file_scores, k - 1), file_scores[k].score)

\* A plausible slip: the risk is averaged over three files whatever their number.
CalculateOverallScoreFixedCount(file_scores) ==
    IF file_scores = <<>> THEN FromInt(100)
    ELSE FMax(FromInt(0),
              FSub(FromInt(100),
                   FMul(FDiv(TotalRisk(file_scores, Len(file_scores)), FromInt(3)),
                        FromInt(100))))

\* StructureScorer._calculate_overall_score(file_scores)
CalculateOverallScore(file_scores) ==
    IF file_scores = <<>> THEN FromInt(100)
    ELSE FMax(FromInt(0),
              FSub(FromInt(100),
                   FMul(FDiv(TotalRisk(file_scores, Len(file_scores)),
                             FromInt(Len(file_scores))),
                        FromInt(100))))

\* hotspots[:10]
HotspotLimit == 10
Take(list, n) == SubSeq(list, 1, Min(n, Len(list)))

\* StructureScorer.calculate_structure_score(issues); file_scores is the local
\* list the scores are computed from.  The component scores and the metrics
\* summary of the result are left out.
CalculateStructureScore(list) ==
    LET structure_issues == SelectSeq(list, LAMBDA issue : issue.category = "Structure")
        metrics_by_file == AggregateMetricsByFile(structure_issues, 1, NoFileMetrics)
        file_scores == CalculateFileScores(metrics_by_file)
    IN  IF structure_issues = <<>>
        THEN [structure_score |-> FromInt(100), hotspot_files |-> <<>>, file_scores |-> <<>>]
        ELSE [structure_score |-> CalculateOverallScore(file_scores),
              hotspot_files |-> Take(IdentifyHotspots(file_scores), HotspotLimit),
              file_scores |-> file_scores]

\* ---- the StructureScorer as a state machine ----

\* An issue as the scorer reads it: category.value, severity.value, file_path
\* and metrics (None or a StructureMetrics).
ScorerIssue(category, severity, file_path, metrics) ==
    [category |-> category, severity |-> severity, file_path |-> file_path,
     metrics |-> metrics]

Complexity(n) == StructureMetrics([cyclomatic_complexity |-> JNum(n)])
Maintainability(n) == StructureMetrics([maintainability_index |-> JNum(n)])
Size(n) == StructureMetrics([sloc |-> JNum(n)])
Duplication(tokens, lines) ==
    StructureMetrics([duplicate_tokens |-> JNum(tokens), sloc |-> JNum(lines)])

\* The issues the lists handed to the scorer are drawn from: three files with
\* Structure issues of every metric, one issue without metrics, and issues of
\* other categories, one of them on a file of its own.
ScorerIssues ==
    { ScorerIssue("Structure", "High", "a.py", Complexity(12)),
      ScorerIssue("Structure", "Critical", "a.py", Complexity(20)),
      ScorerIssue("Structure", "Medium", "a.py", Maintainability(35)),
      ScorerIssue("Structure", "Low", "a.py", Size(300)),
      ScorerIssue("Structure", "High", "a.py", JNull),
      ScorerIssue("Structure", "Medium", "b.py", Complexity(20)),
      ScorerIssue("Structure", "Low", "b.py", Maintainability(55)),
      ScorerIssue("Structure", "Medium", "b.py", Size(600)),
      ScorerIssue("Structure", "Medium", "b.py", Duplication(60, 6)),
      ScorerIssue("Structure", "Low", "c.py", Complexity(14)),
      ScorerIssue("Security", "Critical", "a.py", JNull),
      ScorerIssue("Quality", "High", "d.py", Complexity(50)) }

\* Lists over many files, one Structure issue per file carrying all four
\* metrics.  In a graded list the metrics worsen from file to file; in an
\* anchored list the first file is healthy and the others are equally bad.  The
\* severities cycle through the four levels from a chosen start.
ManyFileName(i) == "f" \o ToString(i) \o ".py"
SeverityCycle == <<"Low", "Medium", "High", "Critical">>
ManyFileSeverity(i, shift) == SeverityCycle[((i + shift) % 4) + 1]
ManyFileMetrics(pattern, i) ==
    IF pattern = "graded"
    THEN StructureMetrics([cyclomatic_complexity |-> JNum(i),
                           maintainability_index |-> JNum(100 - i),
                           sloc |-> JNum(10 * i),
                           duplicate_tokens |-> JNum(i)])
    ELSE IF i = 1
    THEN StructureMetrics([cyclomatic_complexity |-> JNum(1),
                           maintainability_index |-> JNum(90),
                           sloc |-> JNum(10),
                           duplicate_tokens |-> JNum(1)])
    ELSE StructureMetrics([cyclomatic_complexity |-> JNum(30),
                           maintainability_index |-> JNum(10),
                           sloc |-> JNum(900),
                           duplicate_tokens |-> JNum(200)])
ManyFileLists ==
    { [i \in 1..n |-> ScorerIssue("Structure", ManyFileSeverity(i, shift), ManyFileName(i),
                                  ManyFileMetrics(pattern, i))] :
        n \in 0..MaxFiles, shift \in 0..3, pattern \in {"graded", "anchored"} }

InitScorer ==
    /\ ss_pc = "input"
    /\ ss_issues \in SeqsUpTo(ScorerIssues, MaxIssues) \cup ManyFileLists
    /\ ss_result = NoScores
    /\ ss_reference = NoScores
    /\ nm_pc = "idle"
    /\ nm_values = <<>>
    /\ nm_value = 0
    /\ nm_higher = TRUE
    /\ nm_result = NoScores
    /\ ScoreIdle
    /\ EngineIdle
    /\ CommandIdle
    /\ AdapterIdle
    /\ StructureIdle
    /\ MappingIdle
    /\ ServiceIdle

\* scorer.calculate_structure_score(issues)
CalculateStructure ==
    /\ ss_pc = "input"
    /\ ss_result' = CalculateStructureScore(ss_issues)
    /\ ss_pc' = "scored"
    /\ UNCHANGED <<ss_issues, ss_reference, scoreVars, engineVars, commandVars, adapterVars,
                   structureVars, normalizeVars, mappingVars,
                   serviceVars>>

\* The same call on the Structure issues of the list alone.
CalculateStructureOnly ==
    /\ ss_pc = "scored"
    /\ ss_reference' =
          CalculateStructureScore(
             SelectSeq(ss_issues, LAMBDA issue : issue.category = "Structure"))
    /\ ss_pc' = "compared"
    /\ UNCHANGED <<ss_issues, ss_result, scoreVars, engineVars, commandVars, adapterVars,
                   structureVars, normalizeVars, mappingVars,
                   serviceVars>>

NextScorer == CalculateStructure \/ CalculateStructureOnly

SpecScorer == InitScorer /\ [][NextScorer]_vars

\* ---- C17 ----

\* The Structure issues of the list handed to the scorer, and the files they name.
StructureIssueIndexes ==
    {i \in DOMAIN ss_issues : ss_issues[i].category = "Structure"}
StructureFiles == {ss_issues[i].file_path : i \in StructureIssueIndexes}
IssuesOfFile(f) == {i \in StructureIssueIndexes : ss_issues[i].file_path = f}

\* severity_penalty as stated: the sum of the penalties 20/10/5/1 of the
\* Structure issues of the file.
IssuesOfSeverity(f, severity) == {i \in IssuesOfFile(f) : ss_issues[i].severity = severity}
StatedFilePenalty(f) ==
    20 * Cardinality(IssuesOfSeverity(f, "Critical"))
    + 10 * Cardinality(IssuesOfSeverity(f, "High"))
    + 5 * Cardinality(IssuesOfSeverity(f, "Medium"))
    + 1 * Cardinality(IssuesOfSeverity(f, "Low"))

\* The file has a value for the metric: one of its Structure issues carries it.
FileHasValue(f, field) ==
    \E i \in IssuesOfFile(f) :
        /\ ss_issues[i].metrics # JNull
        /\ ss_issues[i].metrics[field] # JNull

\* The composite score of the statement, from the four risks of an entry.
StatedComposite(entry, f) ==
    FAdd(FMul(entry.complexity_score, Frac(35, 100)),
         FAdd(FMul(entry.maintainability_score, Frac(20, 100)),
              FAdd(FMul(entry.duplication_score, Frac(15, 100)),
                   FAdd(FMul(entry.size_score, Frac(10, 100)),
                        FMul(FMin(Frac(StatedFilePenalty(f), 50), FromInt(1)),
                             Frac(10, 100))))))

EntriesOfFile(result, f) ==
    {i \in DOMAIN result.file_scores : result.file_scores[i].file_path = f}

\* C17: every file with at least one Structure issue has one composite score,
\* equal to complexity_risk*0.35 + maintainability_risk*0.20 +
\* duplication_risk*0.15 + size_risk*0.10 + min(severity_penalty/50, 1)*0.10,
\* where severity_penalty is the sum of the penalties 20/10/5/1 of the file's
\* Structure issues; a metric the file has no value for has risk 0, and the
\* score lies in [0, 1].
C17_CompositeScore ==
    ss_pc = "scored" =>
        \A f \in StructureFiles :
            /\ Cardinality(EntriesOfFile(ss_result, f)) = 1
            /\ \A i \in EntriesOfFile(ss_result, f) :
                  LET entry == ss_result.file_scores[i]
                  IN  /\ entry.score = StatedComposite(entry, f)
                      /\ FLe(FromInt(0), entry.score)
                      /\ FLe(entry.score, FromInt(1))
                      /\ ~FileHasValue(f, "cyclomatic_complexity")
                            => entry.complexity_score = FromInt(0)
                      /\ ~FileHasValue(f, "maintainability_index")
                            => entry.maintainability_score = FromInt(0)
                      /\ ~FileHasValue(f, "duplicate_tokens")
                            => entry.duplication_score = FromInt(0)
                      /\ ~FileHasValue(f, "sloc") => entry.size_score = FromInt(0)

\* A file scored from several Structure issues, with a complexity risk above 0
\* and no maintainability index.
C17_Witness ==
    /\ ss_pc = "scored"
    /\ \E f \in StructureFiles :
          /\ Cardinality(IssuesOfFile(f)) >= 2
          /\ ~FileHasValue(f, "maintainability_index")
          /\ \E i \in EntriesOfFile(ss_result, f) :
                /\ FLt(FromInt(0), ss_result.file_scores[i].complexity_score)
                /\ FLt(Frac(10, 50), FMin(Frac(StatedFilePenalty(f), 50), FromInt(1)))

\* ---- _normalize_metric as a state machine ----

\* The values of one metric over the files, as numbers.
AsNumbers(values) == [i \in DOMAIN values |-> FromInt(values[i])]

InitNormalize ==
    /\ nm_pc = "input"
    /\ nm_values \in SeqsUpTo(0..MaxValue, MaxValues)
    /\ nm_value \in 0..MaxValue
    /\ nm_higher \in BOOLEAN
    /\ nm_result = NoScores
    /\ ss_pc = "idle"
    /\ ss_issues = <<>>
    /\ ss_result = NoScores
    /\ ss_reference = NoScores
    /\ ScoreIdle
    /\ EngineIdle
    /\ CommandIdle
    /\ AdapterIdle
    /\ StructureIdle
    /\ MappingIdle
    /\ ServiceIdle

\* percentiles = self._calculate_percentiles(values)
\* self._normalize_metric(value, percentiles, higher_is_worse)
Normalize ==
    /\ nm_pc = "input"
    /\ LET percentiles == CalculatePercentiles(AsNumbers(nm_values))
       IN  nm_result' = [percentiles |-> percentiles,
                         risk |-> NormalizeMetric(FromInt(nm_value), percentiles, nm_higher)]
    /\ nm_pc' = "normalized"
    /\ UNCHANGED <<nm_values, nm_value, nm_higher, scoreVars, engineVars, commandVars,
                   adapterVars, structureVars, scorerVars, mappingVars,
                   serviceVars>>

NextNormalize == Normalize

SpecNormalize == InitNormalize /\ [][NextNormalize]_vars

\* ---- C18 ----

\* (value - p5)/(p95 - p5)
StatedInterpolation(value, p5, p95) == FDiv(FSub(value, p5), FSub(p95, p5))

\* C18: _normalize_metric returns a risk in [0, 1].  With p5 = p95, the bands
\* of no values (all 0) included, the risk is 0.  Otherwise, for a metric where
\* higher is worse, a value at or below p5 gives 0, at or above p95 gives 1, in
\* between (value - p5)/(p95 - p5); for the maintainability index a value at or
\* above p95 gives 0, at or below p5 gives 1, in between
\* 1 - (value - p5)/(p95 - p5).
C18_NormalizeMetric ==
    nm_pc = "normalized" =>
        LET p5 == nm_result.percentiles.p5
            p95 == nm_result.percentiles.p95
            value == FromInt(nm_value)
            risk == nm_result.risk
        IN  /\ FLe(FromInt(0), risk) /\ FLe(risk, FromInt(1))
            /\ nm_values = <<>> => p5 = FromInt(0) /\ p95 = FromInt(0)
            /\ p5 = p95 => risk = FromInt(0)
            /\ p5 # p95 /\ nm_higher =>
                  /\ FLe(value, p5) => risk = FromInt(0)
                  /\ FLe(p95, value) => risk = FromInt(1)
                  /\ FLt(p5, value) /\ FLt(value, p95)
                        => risk = StatedInterpolation(value, p5, p95)
            /\ p5 # p95 /\ ~nm_higher =>
                  /\ FLe(p95, value) => risk = FromInt(0)
                  /\ FLe(value, p5) => risk = FromInt(1)
                  /\ FLt(p5, value) /\ FLt(value, p95)
                        => risk = FSub(FromInt(1), StatedInterpolation(value, p5, p95))

\* A maintainability index strictly inside the band, normalized to a risk
\* strictly between 0 and 1 that is not the risk of the other metrics.
C18_Witness ==
    /\ nm_pc = "normalized"
    /\ ~nm_higher
    /\ FLt(nm_result.percentiles.p5, FromInt(nm_value))
    /\ FLt(FromInt(nm_value), nm_result.percentiles.p95)
    /\ FLt(FromInt(0), nm_result.risk)
    /\ FLt(nm_result.risk, FromInt(1))
    /\ nm_result.risk #
          StatedInterpolation(FromInt(nm_value), nm_result.percentiles.p5,
                              nm_result.percentiles.p95)

\* ---- C19 ----

\* C19: when the Structure issues of the list all belong to exactly one file,
\* the call returns one entry for that file, whose complexity,
\* maintainability, duplication and size risks are all 0 and whose composite
\* score is the severity term min(severity_penalty/50, 1)*0.10 alone, and the
\* structure score is the number 100 - 100*that score.
C19_SingleFileDegenerates ==
    ss_pc = "scored" /\ Cardinality(StructureFiles) = 1 =>
        /\ Len(ss_result.file_scores) = 1
        /\ LET entry == ss_result.file_scores[1]
               term == FMul(FMin(Frac(StatedFilePenalty(entry.file_path), 50), FromInt(1)),
                            Frac(10, 100))
           IN  /\ entry.file_path \in StructureFiles
               /\ entry.complexity_score = FromInt(0)
               /\ entry.maintainability_score = FromInt(0)
               /\ entry.duplication_score = FromInt(0)
               /\ entry.size_score = FromInt(0)
               /\ entry.score = term
               /\ ss_result.structure_score = FSub(FromInt(100), FMul(FromInt(100), term))

\* One file scored from a complexity, a maintainability index and a size.
C19_Witness ==
    /\ ss_pc = "scored"
    /\ Cardinality(StructureFiles) = 1
    /\ \E f \in StructureFiles :
          /\ FileHasValue(f, "cyclomatic_complexity")
          /\ FileHasValue(f, "maintainability_index")
          /\ FileHasValue(f, "sloc")
    /\ FLt(FromInt(0), ss_result.file_scores[1].score)

\* ---- C20 ----

\* The mean of the composite scores of a list of entries.
RECURSIVE SumOfScores(_)
SumOfScores(entries) ==
    IF entries = <<>> THEN FromInt(0)
    ELSE FAdd(Head(entries).score, SumOfScores(Tail(entries)))
StatedMean(entries) == FDiv(SumOfScores(entries), FromInt(Len(entries)))

\* C20: structure_score is 100 - 100*mean(composite score) over exactly the
\* files with at least one Structure issue, each entering once; the same list
\* without its issues of other categories gives the same score; without any
\* Structure issue the score is 100 and the hotspot list is empty.
C20_StructureScoreIsMean ==
    /\ ss_pc \in {"scored", "compared"} =>
          IF StructureFiles = {}
          THEN /\ ss_result.structure_score = FromInt(100)
               /\ ss_result.hotspot_files = <<>>
          ELSE /\ Len(ss_result.file_scores) = Cardinality(StructureFiles)
               /\ \A f \in StructureFiles : Cardinality(EntriesOfFile(ss_result, f)) = 1
               /\ ss_result.structure_score =
                     FSub(FromInt(100),
                          FMul(FromInt(100), StatedMean(ss_result.file_scores)))
    /\ ss_pc = "compared" => ss_result.structure_score = ss_reference.structure_score

\* Two files with Structure issues scored below 100 from a list that also
\* holds an issue of another category, and the Structure issues scored alone.
C20_Witness ==
    /\ ss_pc = "compared"
    /\ Cardinality(StructureFiles) = 2
    /\ \E i \in DOMAIN ss_issues : ss_issues[i].category # "Structure"
    /\ FLt(ss_result.structure_score, FromInt(100))

\* ---- C21 ----

\* The files whose composite score is strictly greater than 0.3, and the score
\* of a file.
ScoreOfFile(result, f) ==
    result.file_scores[CHOOSE i \in EntriesOfFile(result, f) : TRUE].score
ScoredFiles(result) ==
    {result.file_scores[i].file_path : i \in DOMAIN result.file_scores}
QualifyingFiles(result) ==
    {f \in ScoredFiles(result) : FLt(Frac(3, 10), ScoreOfFile(result, f))}
HotspotPaths(result) ==
    {result.hotspot_files[i].file_path : i \in DOMAIN result.hotspot_files}

\* The priority stated for a score above 0.3.
StatedPriority(score) ==
    IF FLt(Frac(7, 10), score) THEN "CRITICAL"
    ELSE IF FLt(Frac(5, 10), score) THEN "HIGH"
    ELSE "MEDIUM"

\* C21: the hotspots are files whose composite score is strictly greater than
\* 0.3, each listed once with its score and the priority of its tier
\* (CRITICAL > 0.7, HIGH > 0.5, MEDIUM otherwise); all such files are listed
\* when there are at most 10, and otherwise 10 are listed and no file left out
\* has a higher score than a file listed.
C21_HotspotsByThreshold ==
    ss_pc = "scored" =>
        LET hotspots == ss_result.hotspot_files
            qualifying == QualifyingFiles(ss_result)
        IN  /\ Len(hotspots) = Cardinality(HotspotPaths(ss_result))
            /\ HotspotPaths(ss_result) \subseteq qualifying
            /\ Len(hotspots) = Min(Cardinality(qualifying), 10)
            /\ \A i \in DOMAIN hotspots :
                  /\ hotspots[i].risk_score = ScoreOfFile(ss_result, hotspots[i].file_path)
                  /\ hotspots[i].priority = StatedPriority(hotspots[i].risk_score)
            /\ \A f \in qualifying \ HotspotPaths(ss_result) :
                  \A i \in DOMAIN hotspots :
                      FLe(ScoreOfFile(ss_result, f), hotspots[i].risk_score)

\* More than 10 files above 0.3, of which 10 are listed, with hotspots of every
\* tier in some list and a scored file that is no hotspot.
C21_Witness ==
    /\ ss_pc = "scored"
    /\ Cardinality(QualifyingFiles(ss_result)) > 10
    /\ Len(ss_result.hotspot_files) = 10
    /\ \E i \in DOMAIN ss_result.hotspot_files :
          ss_result.hotspot_files[i].priority = "CRITICAL"
    /\ ScoredFiles(ss_result) # QualifyingFiles(ss_result)

\* ---- C22 ----

\* C22: hotspot_files is sorted by risk_score in non-increasing order and has
\* at most 10 entries.
C22_HotspotsSortedAndCapped ==
    ss_pc = "scored" =>
        /\ Len(ss_result.hotspot_files) <= 10
        /\ \A i, j \in DOMAIN ss_result.hotspot_files :
              i < j => FLe(ss_result.hotspot_files[j].risk_score,
                           ss_result.hotspot_files[i].risk_score)

\* Ten hotspots of different scores from a list that names the files in another
\* order than their scores.
C22_Witness ==
    /\ ss_pc = "scored"
    /\ Len(ss_result.hotspot_files) = 10
    /\ FLt(ss_result.hotspot_files[10].risk_score, ss_result.hotspot_files[1].risk_score)
    /\ ss_result.hotspot_files[1].file_path # ss_issues[1].file_path
    /\ Len(ss_result.file_scores) > 10

\* ---- C23 ----

\* C23: run_analysis called with a project path that does not exist fails
\* with one error raised before any adapter or tool process is started: no
\* _run_tool call is entered, no tool is executed, and no report is returned.
C23_MissingPathFailsUpfront ==
    ra_pc # "idle" /\ ra_path \notin ExistingDirs =>
        /\ ra_calls = <<>>
        /\ \A tool \in Tools : ra_ran[tool].spawn # "started"
        /\ ra_pc \in {"start", "raised"}
        /\ ra_report = NoScores

(***************************************************************************)
(* The background analysis runs: run_project_analysis                      *)
(* (apis/projects/__init__.py), the Celery task run_full_analysis          *)
(* (libs/analysis_tasks.py) and run_mock_analysis                          *)
(* (apis/analysis/__init__.py).                                            *)
(*                                                                         *)
(* A run works on the analysis row its caller inserted with status         *)
(* 'pending'.  Every call that leaves the process (database, git, the      *)
(* engine, the file system) either returns or raises.                      *)
(***************************************************************************)
BackgroundFunctions == {"run_project_analysis", "run_full_analysis", "run_mock_analysis"}

\* AnalysisStatus
AnalysisStatus == {"pending", "running", "completed", "failed"}

\* The first statement of the try block of each function that leaves the process.
FirstStep(fn) == IF fn = "run_full_analysis" THEN "mkdtemp" ELSE "connect"

InitBackground ==
    /\ bg_fn \in BackgroundFunctions
    /\ bg_pc = FirstStep(bg_fn)
    /\ bg_status = "pending"
    /\ bg_stored = FALSE
    /\ bg_dir = "none"
    /\ bg_conn = "none"
    /\ bg_exc = "none"
    /\ ScoreIdle
    /\ EngineIdle
    /\ CommandIdle
    /\ AdapterIdle
    /\ StructureIdle
    /\ ScorerIdle
    /\ MappingIdle
    /\ UploadIdle
    /\ RequestIdle
    /\ LimiterIdle

\* The durations of the phases the mock run sleeps through, and the statement
\* of the i-th sleep.
MockPhases == <<2, 3, 2, 2, 1, 1, 1>>
PhasePc(i) == "phase" \o ToString(i)

\* The first statement of the finally clause of a function.
FinallyPc(fn) == IF fn = "run_project_analysis" THEN "finally" ELSE "rmtree"

\* The step raised: control goes to the except clause of the function.
Raised(step) ==
    /\ bg_pc' = "handler"
    /\ bg_exc' = step

\* conn = await get_db_connection()
Connect ==
    /\ bg_pc = "connect"
    /\ \/ /\ bg_conn' = "open"
          /\ bg_pc' = "set_running"
          /\ UNCHANGED bg_exc
       \/ /\ Raised("connect")
          /\ UNCHANGED bg_conn
    /\ UNCHANGED <<bg_fn, bg_status, bg_stored, bg_dir, scoreVars, engineVars, commandVars,
                   adapterVars, structureVars, scorerVars, normalizeVars, mappingVars,
                   uploadVars,
                   requestVars,
                   limiterVars>>

\* await conn.execute("UPDATE analyses SET status = 'running' ..."); the mock
\* run closes its connection after it.
SetRunning ==
    /\ bg_pc = "set_running"
    /\ \/ /\ bg_status' = "running"
          /\ IF bg_fn = "run_mock_analysis"
             THEN bg_conn' = "closed" /\ bg_pc' = PhasePc(1)
             ELSE bg_pc' = "mkdtemp" /\ UNCHANGED bg_conn
          /\ UNCHANGED bg_exc
       \/ /\ Raised("set_running")
          /\ UNCHANGED <<bg_status, bg_conn>>
    /\ UNCHANGED <<bg_fn, bg_stored, bg_dir, scoreVars, engineVars, commandVars,
                   adapterVars, structureVars, scorerVars, normalizeVars, mappingVars,
                   uploadVars,
                   requestVars,
                   limiterVars>>

\* project_path = tempfile.mkdtemp()
MakeTempDir ==
    /\ bg_pc = "mkdtemp"
    /\ \/ /\ bg_dir' = "exists"
          /\ bg_pc' = "clone"
          /\ UNCHANGED bg_exc
       \/ /\ Raised("mkdtemp")
          /\ UNCHANGED bg_dir
    /\ UNCHANGED <<bg_fn, bg_status, bg_stored, bg_conn, scoreVars, engineVars, commandVars,
                   adapterVars, structureVars, scorerVars, normalizeVars, mappingVars,
                   uploadVars,
                   requestVars,
                   limiterVars>>

\* subprocess.run(["git", "clone", ...], check=True, ...): the clone succeeds,
\* fails, or (run_project_analysis, timeout=300) times out.
CloneRepository ==
    /\ bg_pc = "clone"
    /\ \/ /\ bg_pc' = "engine"
          /\ UNCHANGED bg_exc
       \/ Raised("clone_failed")
       \/ /\ bg_fn = "run_project_analysis"
          /\ Raised("clone_timeout")
    /\ UNCHANGED <<bg_fn, bg_status, bg_stored, bg_dir, bg_conn, scoreVars, engineVars,
                   commandVars, adapterVars, structureVars, scorerVars, normalizeVars,
                   mappingVars,
                   uploadVars,
                   requestVars,
                   limiterVars>>

\* report = run_analysis(project_path)
RunEngine ==
    /\ bg_pc = "engine"
    /\ \/ /\ bg_pc' = IF bg_fn = "run_project_analysis" THEN "write_report" ELSE "store"
          /\ UNCHANGED bg_exc
       \/ Raised("engine")
    /\ UNCHANGED <<bg_fn, bg_status, bg_stored, bg_dir, bg_conn, scoreVars, engineVars,
                   commandVars, adapterVars, structureVars, scorerVars, normalizeVars,
                   mappingVars,
                   uploadVars,
                   requestVars,
                   limiterVars>>

\* with open(report_file_path, 'w') as f: json.dump(report, f, ...)
WriteReport ==
    /\ bg_pc = "write_report"
    /\ \/ /\ bg_pc' = "store"
          /\ UNCHANGED bg_exc
       \/ Raised("write_report")
    /\ UNCHANGED <<bg_fn, bg_status, bg_stored, bg_dir, bg_conn, scoreVars, engineVars,
                   commandVars, adapterVars, structureVars, scorerVars, normalizeVars,
                   mappingVars,
                   uploadVars,
                   requestVars,
                   limiterVars>>

\* for phase_name, duration in phases: await asyncio.sleep(duration)
SleepPhase ==
    /\ \E i \in DOMAIN MockPhases :
          /\ bg_pc = PhasePc(i)
          /\ bg_pc' = IF i < Len(MockPhases) THEN PhasePc(i + 1) ELSE "reconnect"
    /\ UNCHANGED <<bg_fn, bg_status, bg_stored, bg_dir, bg_conn, bg_exc, scoreVars,
                   engineVars, commandVars, adapterVars, structureVars, scorerVars,
                   normalizeVars, mappingVars,
                   uploadVars,
                   requestVars,
                   limiterVars>>

\* The mock run after its phases: conn = await get_db_connection()
Reconnect ==
    /\ bg_pc = "reconnect"
    /\ \/ /\ bg_conn' = "open"
          /\ bg_pc' = "store"
          /\ UNCHANGED bg_exc
       \/ /\ Raised("connect")
          /\ UNCHANGED bg_conn
    /\ UNCHANGED <<bg_fn, bg_status, bg_stored, bg_dir, scoreVars, engineVars, commandVars,
                   adapterVars, structureVars, scorerVars, normalizeVars, mappingVars,
                   uploadVars,
                   requestVars,
                   limiterVars>>

\* UPDATE analyses SET status = 'completed', ..., the scores.
\* run_project_analysis: conn.execute, then the update of the project follows.
\* run_full_analysis: asyncio.run(_update_db_with_results(...)), one
\* transaction on a connection of its own, closed in a finally clause that
\* can raise after the commit; then the try block ends.
\* run_mock_analysis: the arguments of conn.execute hold datetime.now(), and
\* the module does not import datetime, so NameError is raised before the
\* statement reaches the database.
StoreResults ==
    /\ bg_pc = "store"
    /\ \/ /\ bg_fn # "run_mock_analysis"
          /\ bg_status' = "completed"
          /\ bg_stored' = TRUE
          /\ bg_pc' = IF bg_fn = "run_project_analysis" THEN "update_project"
                      ELSE FinallyPc(bg_fn)
          /\ UNCHANGED bg_exc
       \/ /\ Raised("store")
          /\ UNCHANGED <<bg_status, bg_stored>>
       \/ /\ bg_fn = "run_full_analysis"
          /\ bg_status' = "completed"
          /\ bg_stored' = TRUE
          /\ Raised("store_close")
    /\ UNCHANGED <<bg_fn, bg_dir, bg_conn, scoreVars, engineVars, commandVars, adapterVars,
                   structureVars, scorerVars, normalizeVars, mappingVars,
                   uploadVars,
                   requestVars,
                   limiterVars>>

\* await conn.execute("UPDATE projects SET last_analysis_id = ...")
UpdateProject ==
    /\ bg_pc = "update_project"
    /\ \/ /\ bg_pc' = "finally"
          /\ UNCHANGED bg_exc
       \/ Raised("update_project")
    /\ UNCHANGED <<bg_fn, bg_status, bg_stored, bg_dir, bg_conn, scoreVars, engineVars,
                   commandVars, adapterVars, structureVars, scorerVars, normalizeVars,
                   mappingVars,
                   uploadVars,
                   requestVars,
                   limiterVars>>

\* The status of the row after the except clause, db_ok telling whether its
\* database calls succeed.  run_project_analysis updates on conn if it has one
\* and swallows a failure; run_mock_analysis connects again if it has no open
\* connection and swallows a failure; run_full_analysis prints and re-raises.
HandlerStatus(fn, conn, status, db_ok) ==
    CASE fn = "run_project_analysis" -> IF conn = "open" /\ db_ok THEN "failed" ELSE status
      [] fn = "run_mock_analysis" -> IF db_ok THEN "failed" ELSE status
      [] fn = "run_full_analysis" -> status

\* except Exception as e: ...  run_project_analysis and run_full_analysis
\* re-raise and reach their finally clause.  run_mock_analysis connects again
\* unless its connection is open, updates the row, closes the connection it
\* has in the finally clause of the handler, where an exception of
\* conn.close() leaves the function, and otherwise returns.
HandleError ==
    /\ bg_pc = "handler"
    /\ \E connect_ok, execute_ok, close_ok \in BOOLEAN :
          LET has_open == bg_conn = "open" \/ (bg_fn = "run_mock_analysis" /\ connect_ok)
              db_ok == has_open /\ execute_ok
          IN  /\ bg_status' = HandlerStatus(bg_fn, bg_conn, bg_status, db_ok)
              /\ IF bg_fn = "run_mock_analysis"
                 THEN /\ bg_pc' = IF has_open /\ ~close_ok THEN "raised" ELSE "returned"
                      /\ bg_exc' = IF has_open /\ ~close_ok THEN "close" ELSE bg_exc
                      /\ bg_conn' = IF has_open THEN "closed" ELSE bg_conn
                 ELSE /\ bg_pc' = FinallyPc(bg_fn)
                      /\ UNCHANGED <<bg_exc, bg_conn>>
    /\ UNCHANGED <<bg_fn, bg_stored, bg_dir, scoreVars, engineVars, commandVars, adapterVars,
                   structureVars, scorerVars, normalizeVars, mappingVars,
                   uploadVars,
                   requestVars,
                   limiterVars>>

\* The finally clause of run_project_analysis, first statement:
\* if conn: await conn.close().  An exception of conn.close() leaves the
\* clause, and the function, at once.
CloseConnection ==
    /\ bg_pc = "finally"
    /\ \E close_ok \in BOOLEAN :
          /\ bg_conn = "none" => close_ok
          /\ bg_conn' = IF bg_conn = "open" THEN "closed" ELSE bg_conn
          /\ bg_pc' = IF close_ok THEN "rmtree" ELSE "raised"
          /\ bg_exc' = IF close_ok THEN bg_exc ELSE "close"
    /\ UNCHANGED <<bg_fn, bg_status, bg_stored, bg_dir, scoreVars, engineVars, commandVars,
                   adapterVars, structureVars, scorerVars, normalizeVars, mappingVars,
                   uploadVars,
                   requestVars,
                   limiterVars>>

\* if project_path and os.path.exists(project_path): shutil.rmtree(project_path),
\* the last statement of the finally clause; the function then returns, or
\* raises the exception that brought it to the clause.
RemoveTree ==
    /\ bg_pc = "rmtree"
    /\ bg_dir' = IF bg_dir = "exists" THEN "removed" ELSE bg_dir
    /\ bg_pc' = IF bg_exc # "none" THEN "raised" ELSE "returned"
    /\ UNCHANGED <<bg_fn, bg_status, bg_stored, bg_conn, bg_exc, scoreVars, engineVars,
                   commandVars, adapterVars, structureVars, scorerVars, normalizeVars,
                   mappingVars,
                   uploadVars,
                   requestVars,
                   limiterVars>>

NextBackground ==
    \/ Connect
    \/ SetRunning
    \/ MakeTempDir
    \/ CloneRepository
    \/ RunEngine
    \/ WriteReport
    \/ SleepPhase
    \/ Reconnect
    \/ StoreResults
    \/ UpdateProject
    \/ HandleError
    \/ CloseConnection
    \/ RemoveTree

SpecBackground == InitBackground /\ [][NextBackground]_vars

\* ---- C24 ----

\* The run has ended: the function returned or raised.
RunEnded == bg_pc \in {"returned", "raised"}

\* C24: for run_project_analysis and run_full_analysis, in every outcome after
\* the temporary directory was created, the directory no longer exists when
\* the function returns or raises.
C24_TempDirRemoved ==
    /\ bg_fn \in {"run_project_analysis", "run_full_analysis"}
    /\ RunEnded
    => bg_dir # "exists"

\* ---- C27 ----

\* C27: a background run that has ended leaves its analysis row in a terminal
\* status: 'completed' only with the scores of the report stored, 'failed'
\* whenever a step raised, never 'pending' or 'running'.
C27_RunEndsInTerminalStatus ==
    RunEnded =>
        /\ bg_status \in {"completed", "failed"}
        /\ bg_status = "completed" => bg_stored
        /\ bg_exc # "none" => bg_status = "failed"

(***************************************************************************)
(* apis/projects/__init__.py: analyze_python_project_simple.               *)
(*                                                                         *)
(* A filename is the sequence of its characters.  The confidence is        *)
(* counted in hundredths; every sum the code compares with 0.3 is either   *)
(* 0.0 or starts from 0.4 or 0.3, so rounding does not decide the          *)
(* comparison.                                                             *)
(***************************************************************************)
\* c.lower() of one character, and s.lower() of the characters of s.
LowerChar(c) ==
    IF \E i \in 1..26 : UpperLetters[i] = c
    THEN LowerLetters[CHOOSE i \in 1..26 : UpperLetters[i] = c]
    ELSE c
LowerName(chars) == [i \in DOMAIN chars |-> LowerChar(chars[i])]

\* s.endswith(suffix) and sub in s, for the characters of s and a str.
EndsWith(chars, suffix) ==
    /\ Len(chars) >= Len(suffix)
    /\ JoinChars(SubSeq(chars, Len(chars) - Len(suffix) + 1, Len(chars))) = suffix
Contains(chars, sub) ==
    \E a \in 1..(Len(chars) - Len(sub) + 1) :
        JoinChars(SubSeq(chars, a, a + Len(sub) - 1)) = sub

PYTHON_PROJECT_INDICATORS ==
    {"setup.py", "pyproject.toml", "requirements.txt", "Pipfile", "poetry.lock",
     "conda.yml", "environment.yml", "main.py", "__init__.py", "app.py", "manage.py"}

MAX_TOTAL_SIZE == 200 * 1024 * 1024

\* The sum of term(f) over the files of a list.
RECURSIVE SumFiles(_, _)
SumFiles(files, term) ==
    IF files = <<>> THEN 0 ELSE term[Head(files)] + SumFiles(Tail(files), term)

\* The confidence one file adds in the loop over python_files.
EntryPointConfidence(f) ==
    IF JoinChars(LowerName(f.filename)) \in {"main.py", "app.py", "run.py", "server.py"} THEN 10
    ELSE IF JoinChars(LowerName(f.filename)) = "__init__.py" THEN 5
    ELSE 0

\* The confidence the loop over files_metadata adds for the frameworks; fastapi
\* tells whether 'FastAPI' is in detected_frameworks.
RECURSIVE FrameworkConfidence(_, _)
FrameworkConfidence(files, fastapi) ==
    IF files = <<>> THEN 0
    ELSE LET chars == LowerName(Head(files).filename)
             filename == JoinChars(chars)
             rest == Tail(files)
         IN  IF filename = "manage.py" \/ Contains(chars, "django")
             THEN 10 + FrameworkConfidence(rest, fastapi)
             ELSE IF Contains(chars, "flask") \/ filename \in {"wsgi.py", "application.py"}
             THEN 10 + FrameworkConfidence(rest, fastapi)
             ELSE IF Contains(chars, "fastapi") \/ filename \in {"main.py", "api.py"}
             THEN (IF fastapi THEN 0 ELSE 10) + FrameworkConfidence(rest, TRUE)
             ELSE IF EndsWith(chars, ".ipynb")
             THEN 5 + FrameworkConfidence(rest, fastapi)
             ELSE IF filename \in {"analysis.py", "model.py", "train.py", "predict.py"}
             THEN 5 + FrameworkConfidence(rest, fastapi)
             ELSE FrameworkConfidence(rest, fastapi)

\* The error appended for a project above MAX_TOTAL_SIZE, without the two
\* sizes its text ends with.
TooLarge == "Project too large"

\* is_python_project: decided by the confidence alone.
IsPythonProject(confidence, total_size) == confidence >= 30

\* analyze_python_project_simple(files_metadata); the frameworks, entry
\* points, dependencies, warnings and the structure analysis of the result are
\* left out.
AnalyzePythonProjectSimple(files_metadata) ==
    LET python_files ==
            SelectSeq(files_metadata,
                      LAMBDA f : \/ EndsWith(f.filename, ".py")
                                 \/ EndsWith(f.filename, ".pyx")
                                 \/ EndsWith(f.filename, ".pyi"))
        lowered == {LowerName(files_metadata[i].filename) : i \in DOMAIN files_metadata}
        project_files == {JoinChars(n) : n \in lowered}
        indicators_found == PYTHON_PROJECT_INDICATORS \cap project_files
        names == {files_metadata[i].filename : i \in DOMAIN files_metadata}
        from_python ==
            IF python_files # <<>>
            THEN 40 + SumFiles(python_files,
                               [f \in {python_files[i] : i \in DOMAIN python_files} |->
                                   EntryPointConfidence(f)])
            ELSE 0
        from_indicators ==
            IF indicators_found # {}
            THEN 30 + (IF "requirements.txt" \in project_files THEN 10 ELSE 0)
                    + (IF "pyproject.toml" \in project_files THEN 10 ELSE 0)
                    + (IF "pipfile" \in project_files THEN 10 ELSE 0)
                    + (IF "setup.py" \in project_files THEN 10 ELSE 0)
            ELSE 0
        has_src_structure == \E n \in names : Contains(n, "src/")
        has_tests == \E n \in lowered : Contains(n, "test")
        has_docs == \E n \in lowered : Contains(n, "doc") \/ Contains(n, "readme")
        summed == from_python + from_indicators + FrameworkConfidence(files_metadata, FALSE)
                  + (IF has_src_structure THEN 5 ELSE 0)
                  + (IF has_tests THEN 5 ELSE 0)
                  + (IF has_docs THEN 5 ELSE 0)
        nothing == python_files = <<>> /\ indicators_found = {}
        confidence == IF nothing THEN 0 ELSE summed
        total_size ==
            SumFiles(files_metadata,
                     [f \in {files_metadata[i] : i \in DOMAIN files_metadata} |-> f.size])
        errors ==
            (IF nothing
             THEN <<"No Python files or project indicators found",
                    "This doesn't appear to be a Python project">>
             ELSE <<>>)
            \o (IF total_size > MAX_TOTAL_SIZE THEN <<TooLarge>> ELSE <<>>)
    IN  [is_python_project |-> IsPythonProject(confidence, total_size),
         confidence_score |-> Min(confidence, 100),
         total_files |-> Len(files_metadata),
         python_files |-> Len(python_files),
         total_size_bytes |-> total_size,
         indicators_found |-> indicators_found,
         errors |-> errors]

\* The uploads: at most MaxUpload files, each with one of these names and one
\* of these sizes.
MaxUpload == 2
UploadNames ==
    {<<"m", "a", "i", "n", ".", "p", "y">>,
     <<"u", "t", "i", "l", ".", "p", "y">>,
     <<"A", "P", "P", ".", "P", "Y">>,
     <<"s", "e", "t", "u", "p", ".", "p", "y">>,
     <<"x", ".", "h", "t", "m", "l">>,
     <<"s", "r", "c", "/", "t", ".", "p", "y">>,
     <<"r", "e", "a", "d", "m", "e">>}
UploadSizes == {500, 120 * 1024 * 1024, 250 * 1024 * 1024}
UploadedFiles == [filename : UploadNames, size : UploadSizes]

InitUpload ==
    /\ up_pc = "input"
    /\ up_files \in SeqsUpTo(UploadedFiles, MaxUpload)
    /\ up_result = NoScores
    /\ ScoreIdle /\ EngineIdle /\ CommandIdle /\ AdapterIdle /\ StructureIdle
       /\ ScorerIdle /\ MappingIdle
    /\ BackgroundIdle
    /\ RequestIdle
    /\ LimiterIdle

\* analysis = analyze_python_project_simple(files_metadata)
Analyze ==
    /\ up_pc = "input"
    /\ up_result' = AnalyzePythonProjectSimple(up_files)
    /\ up_pc' = "analyzed"
    /\ UNCHANGED <<up_files, scoreVars, engineVars, commandVars, adapterVars, structureVars,
                   scorerVars, normalizeVars, mappingVars, backgroundVars,
                   requestVars,
                   limiterVars>>

NextUpload == Analyze

SpecUpload == InitUpload /\ [][NextUpload]_vars

\* C25: when the files of an upload together exceed MAX_TOTAL_SIZE,
\* analyze_python_project_simple returns is_python_project = False and an
\* error saying that the project is too large.
C25_TooLargeRejected ==
    (up_pc = "analyzed" /\ up_result.total_size_bytes > MAX_TOTAL_SIZE) =>
        /\ ~up_result.is_python_project
        /\ \E i \in DOMAIN up_result.errors : up_result.errors[i] = TooLarge

(***************************************************************************)
(* The two start_analysis endpoints, POST /projects/{project_id}/analyze   *)
(* of apis/analysis and POST /{project_id}/analyze of apis/projects, for   *)
(* requests of one user for one project.  The handlers are coroutines of   *)
(* one event loop: a step runs from one await to the next.  The background *)
(* tasks outlast the requests, so a row that is pending or running stays   *)
(* so.                                                                     *)
(***************************************************************************)
MaxRequests == 2
Requests == 1..MaxRequests
Endpoints == {"analysis", "projects"}

\* The rows of the project before the requests: none, a finished analysis,
\* an analysis a task is running.
EarlierRows == {<<>>, <<"completed">>, <<"running">>, <<"failed", "pending">>}

\* status IN ('pending', 'running')
InProgress(rows) == {id \in DOMAIN rows : rows[id] \in {"pending", "running"}}

InitRequests ==
    /\ rq_endpoint \in [Requests -> Endpoints]
    /\ rq_pc = [r \in Requests |-> "start"]
    /\ rq_response = [r \in Requests |-> 0]
    /\ rq_analysis = [r \in Requests |-> 0]
    /\ rq_busy = [r \in Requests |-> FALSE]
    /\ an_rows \in EarlierRows
    /\ an_tasks = <<>>
    /\ ScoreIdle /\ EngineIdle /\ CommandIdle /\ AdapterIdle /\ StructureIdle
    /\ ScorerIdle /\ MappingIdle
    /\ BackgroundIdle /\ UploadIdle
    /\ LimiterIdle

\* Both handlers: the connection and the SELECT of the project, which is found.
VerifyProject(r) ==
    /\ rq_pc[r] = "start"
    /\ rq_pc' = [rq_pc EXCEPT ![r] = "verified"]
    /\ rq_busy' = [rq_busy EXCEPT ![r] = InProgress(an_rows) # {}]
    /\ UNCHANGED <<rq_endpoint, rq_response, rq_analysis, an_rows, an_tasks>>
    /\ UNCHANGED <<scoreVars, engineVars, commandVars, adapterVars, structureVars,
                   scorerVars, normalizeVars, mappingVars, backgroundVars, uploadVars,
                   limiterVars>>

\* apis/analysis: the SELECT of an analysis in progress, and the 409.
CheckExisting(r) ==
    /\ rq_endpoint[r] = "analysis"
    /\ rq_pc[r] = "verified"
    /\ IF InProgress(an_rows) # {}
       THEN /\ rq_response' = [rq_response EXCEPT ![r] = 409]
            /\ rq_pc' = [rq_pc EXCEPT ![r] = "done"]
       ELSE /\ rq_pc' = [rq_pc EXCEPT ![r] = "checked"]
            /\ UNCHANGED rq_response
    /\ UNCHANGED <<rq_endpoint, rq_analysis, rq_busy, an_rows, an_tasks>>
    /\ UNCHANGED <<scoreVars, engineVars, commandVars, adapterVars, structureVars,
                   scorerVars, normalizeVars, mappingVars, backgroundVars, uploadVars,
                   limiterVars>>

\* apis/analysis: the INSERT.  Its argument datetime.now() names a module the
\* file does not import: NameError before the statement is sent, turned into
\* a 500 by `except Exception`.
CreateAnalysis(r) ==
    /\ rq_endpoint[r] = "analysis"
    /\ rq_pc[r] = "checked"
    /\ rq_response' = [rq_response EXCEPT ![r] = 500]
    /\ rq_pc' = [rq_pc EXCEPT ![r] = "done"]
    /\ UNCHANGED <<rq_endpoint, rq_analysis, rq_busy, an_rows, an_tasks>>
    /\ UNCHANGED <<scoreVars, engineVars, commandVars, adapterVars, structureVars,
                   scorerVars, normalizeVars, mappingVars, backgroundVars, uploadVars,
                   limiterVars>>

\* apis/projects: the SELECT of the user's token; a user without one gets 403.
CheckToken(r) ==
    /\ rq_endpoint[r] = "projects"
    /\ rq_pc[r] = "verified"
    /\ \E token \in BOOLEAN :
          IF token
          THEN /\ rq_pc' = [rq_pc EXCEPT ![r] = "checked"]
               /\ UNCHANGED rq_response
          ELSE /\ rq_response' = [rq_response EXCEPT ![r] = 403]
               /\ rq_pc' = [rq_pc EXCEPT ![r] = "done"]
    /\ UNCHANGED <<rq_endpoint, rq_analysis, rq_busy, an_rows, an_tasks>>
    /\ UNCHANGED <<scoreVars, engineVars, commandVars, adapterVars, structureVars,
                   scorerVars, normalizeVars, mappingVars, backgroundVars, uploadVars,
                   limiterVars>>

\* apis/projects: INSERT INTO analyses ... 'pending' ... RETURNING id
InsertAnalysis(r) ==
    /\ rq_endpoint[r] = "projects"
    /\ rq_pc[r] = "checked"
    /\ an_rows' = Append(an_rows, "pending")
    /\ rq_analysis' = [rq_analysis EXCEPT ![r] = Len(an_rows) + 1]
    /\ rq_pc' = [rq_pc EXCEPT ![r] = "inserted"]
    /\ UNCHANGED <<rq_endpoint, rq_response, rq_busy, an_tasks>>
    /\ UNCHANGED <<scoreVars, engineVars, commandVars, adapterVars, structureVars,
                   scorerVars, normalizeVars, mappingVars, backgroundVars, uploadVars,
                   limiterVars>>

\* apis/projects: the UPDATE of last_analysis_id, asyncio.create_task and the
\* 202.
StartTask(r) ==
    /\ rq_endpoint[r] = "projects"
    /\ rq_pc[r] = "inserted"
    /\ an_tasks' = Append(an_tasks, rq_analysis[r])
    /\ rq_response' = [rq_response EXCEPT ![r] = 202]
    /\ rq_pc' = [rq_pc EXCEPT ![r] = "done"]
    /\ UNCHANGED <<rq_endpoint, rq_analysis, rq_busy, an_rows>>
    /\ UNCHANGED <<scoreVars, engineVars, commandVars, adapterVars, structureVars,
                   scorerVars, normalizeVars, mappingVars, backgroundVars, uploadVars,
                   limiterVars>>

NextRequests ==
    \E r \in Requests :
        \/ VerifyProject(r)
        \/ CheckExisting(r)
        \/ CreateAnalysis(r)
        \/ CheckToken(r)
        \/ InsertAnalysis(r)
        \/ StartTask(r)

SpecRequests == InitRequests /\ [][NextRequests]_vars

\* C28: the analyses of a project exclude each other.  While the project had
\* at most one analysis pending or running before the requests, it never has
\* more than one; and a request that arrived while one was pending or running
\* (and whose user has a token) is answered 409 and has created no row and
\* no task.
C28_OneAnalysisInProgress ==
    /\ Cardinality(InProgress(an_rows)) <= 1
    /\ \A r \in Requests :
          (rq_pc[r] = "done" /\ rq_busy[r] /\ rq_response[r] # 403) =>
              /\ rq_response[r] = 409
              /\ rq_analysis[r] = 0
              /\ \A i \in DOMAIN an_tasks : an_tasks[i] # rq_analysis[r]

(***************************************************************************)
(* middleware/security.py: RequestLoggingMiddleware, its rate limiting.    *)
(*                                                                         *)
(* check_rate_limit and cleanup_rate_limit_data have no await inside: each *)
(* runs in one step.  Between the two, dispatch awaits call_next.  A path  *)
(* is the sequence of its characters.                                      *)
(***************************************************************************)
Clients == {"10.0.0.1", "10.0.0.2"}

\* The paths requested, by the class the limits are listed for.
PathsOfClass ==
    [upload |-> {<<"/", "a", "p", "i", "/", "p", "r", "o", "j", "e", "c", "t", "s", "/", "u", "p", "l", "o", "a", "d">>,
                 <<"/", "u", "p", "l", "o", "a", "d", "s", "/", "a">>},
     projects |-> {<<"/", "a", "p", "i", "/", "p", "r", "o", "j", "e", "c", "t", "s", "/", "7">>},
     api |-> {<<"/", "a", "p", "i", "/", "u", "s", "e", "r", "s">>},
     other |-> {<<"/", "h", "e", "a", "l", "t", "h">>,
                <<"/", ".", ".", "/", "e", "t", "c">>}]
PathClasses == DOMAIN PathsOfClass
Paths == UNION {PathsOfClass[c] : c \in PathClasses}
ClassOf(path) == CHOOSE c \in PathClasses : path \in PathsOfClass[c]

\* The limits as listed: in production, and otherwise.
ListedLimit(class, production) ==
    CASE class = "upload" -> IF production THEN 3 ELSE 10
      [] class = "projects" -> IF production THEN 30 ELSE 60
      [] class = "api" -> IF production THEN 60 ELSE 120
      [] class = "other" -> 100

\* limit, as check_rate_limit picks it
LimitOf(path, production) ==
    IF Contains(path, "/upload") THEN (IF production THEN 3 ELSE 10)
    ELSE IF Contains(path, "/api/projects") THEN (IF production THEN 30 ELSE 60)
    ELSE IF Contains(path, "/api/") THEN (IF production THEN 60 ELSE 120)
    ELSE 100

\* current_time // 60
MinuteWindow(time) == time \div 60

\* self.request_counts.get(client, {}).get(window, 0)
CountOf(counts, client, window) ==
    IF client \in DOMAIN counts /\ window \in DOMAIN counts[client]
    THEN counts[client][window] ELSE 0

\* A dict with d[key] = value set.
SetItem(d, key, value) == [k \in DOMAIN d \cup {key} |-> IF k = key THEN value ELSE d[k]]
EmptyCounts == [k \in {} |-> 0]

\* A plausible slip: the request that reaches the limit is counted too.
CheckRateLimitAfterLimit(counts, client, path, time, production) ==
    LET minute_window == MinuteWindow(time)
        entered == IF client \in DOMAIN counts THEN counts
                   ELSE SetItem(counts, client, EmptyCounts)
        current_count == CountOf(entered, client, minute_window)
    IN  IF current_count > LimitOf(path, production)
        THEN [limited |-> TRUE, counts |-> entered]
        ELSE [limited |-> FALSE,
              counts |-> SetItem(entered, client,
                                 SetItem(entered[client], minute_window, current_count + 1))]

\* check_rate_limit(request, client_ip): whether the request is over the
\* limit, and self.request_counts afterwards.
CheckRateLimit(counts, client, path, time, production) ==
    LET minute_window == MinuteWindow(time)
        entered == IF client \in DOMAIN counts THEN counts
                   ELSE SetItem(counts, client, EmptyCounts)
        current_count == CountOf(entered, client, minute_window)
    IN  IF current_count >= LimitOf(path, production)
        THEN [limited |-> TRUE, counts |-> entered]
        ELSE [limited |-> FALSE,
              counts |-> SetItem(entered, client,
                                 SetItem(entered[client], minute_window, current_count + 1))]

\* cleanup_rate_limit_data(): windows more than 10 before the current one are
\* deleted, and clients left without a window.
CleanupRateLimitData(counts, time) ==
    LET minute_window == MinuteWindow(time)
        kept(client) == {w \in DOMAIN counts[client] : ~(w < minute_window - 10)}
        clients == {c \in DOMAIN counts : kept(c) # {}}
    IN  [c \in clients |-> [w \in kept(c) |-> counts[c][w]]]

\* validate_request_security(request), for requests without the headers it
\* looks at: the paths it objects to.
ValidateRequestSecurity(path) ==
    IF Contains(path, "../") THEN "Directory traversal attempt" ELSE "None"

\* The counts the clients can have reached in the window the model starts in,
\* around each limit; MaxSent more requests follow, and the clock moves
\* MaxTicks times, by a minute or by eleven.
StartCounts(production) ==
    IF production THEN {2, 3, 29, 30, 59, 60, 99, 100}
    ELSE {9, 10, 59, 60, 99, 100, 119, 120}
MaxSent == 1
MaxTicks == 1
ClockSteps == {60, 660}
NoRequest == [client |-> "none", path |-> <<>>, window |-> 0, status |-> 0,
              before |-> EmptyCounts, after |-> EmptyCounts]

InitLimiter ==
    /\ rl_production \in BOOLEAN
    /\ rl_time = 0
    /\ rl_ticks = 0
    /\ rl_sent = 0
    /\ rl_last_cleanup = 0
    /\ \E busy \in SUBSET Clients, start \in StartCounts(rl_production) :
          rl_counts = [c \in busy |-> [w \in {0} |-> start]]
    /\ rl_inflight = 0
    /\ rl_last = NoRequest
    /\ ScoreIdle /\ EngineIdle /\ CommandIdle /\ AdapterIdle /\ StructureIdle
    /\ ScorerIdle /\ MappingIdle
    /\ BackgroundIdle /\ UploadIdle /\ RequestIdle

\* dispatch up to call_next: 429 for a request over the limit, 400 for one
\* validate_request_security objects to, and otherwise the request is passed
\* on.
Dispatch ==
    /\ rl_sent < MaxSent
    /\ rl_sent' = rl_sent + 1
    /\ \E client \in Clients, path \in Paths :
          LET checked == CheckRateLimit(rl_counts, client, path, rl_time, rl_production)
              status == IF checked.limited THEN 429
                        ELSE IF ValidateRequestSecurity(path) # "None" THEN 400
                        ELSE 200
          IN  /\ rl_counts' = checked.counts
              /\ rl_last' = [client |-> client, path |-> path,
                             window |-> MinuteWindow(rl_time), status |-> status,
                             before |-> rl_counts, after |-> checked.counts]
              /\ rl_inflight' = IF status = 200 THEN rl_inflight + 1 ELSE rl_inflight
    /\ UNCHANGED <<rl_production, rl_time, rl_ticks, rl_last_cleanup>>
    /\ UNCHANGED <<scoreVars, engineVars, commandVars, adapterVars, structureVars,
                   scorerVars, normalizeVars, mappingVars, backgroundVars, uploadVars,
                   requestVars>>

\* dispatch after call_next: the cleanup when the last one is more than 60
\* seconds ago.
Respond ==
    /\ rl_inflight > 0
    /\ rl_inflight' = rl_inflight - 1
    /\ IF rl_time - rl_last_cleanup > 60
       THEN /\ rl_counts' = CleanupRateLimitData(rl_counts, rl_time)
            /\ rl_last_cleanup' = rl_time
       ELSE UNCHANGED <<rl_counts, rl_last_cleanup>>
    /\ UNCHANGED <<rl_production, rl_time, rl_ticks, rl_sent, rl_last>>
    /\ UNCHANGED <<scoreVars, engineVars, commandVars, adapterVars, structureVars,
                   scorerVars, normalizeVars, mappingVars, backgroundVars, uploadVars,
                   requestVars>>

\* Time passes.
ClockMoves ==
    /\ rl_ticks < MaxTicks
    /\ \E d \in ClockSteps : rl_time' = rl_time + d
    /\ rl_ticks' = rl_ticks + 1
    /\ UNCHANGED <<rl_production, rl_sent, rl_last_cleanup, rl_counts, rl_inflight, rl_last>>
    /\ UNCHANGED <<scoreVars, engineVars, commandVars, adapterVars, structureVars,
                   scorerVars, normalizeVars, mappingVars, backgroundVars, uploadVars,
                   requestVars>>

NextLimiter == Dispatch \/ Respond \/ ClockMoves

SpecLimiter == InitLimiter /\ [][NextLimiter]_vars

\* C29: within one minute window a request of a client is answered 429
\* exactly when the client already has at least as many requests counted in
\* the window as the limit listed for the class of the requested path; a
\* request that is not over the limit is counted; fewer than 10 counted
\* requests never limit a request of the class "other"; a request answered
\* 429 changes no count; and no request changes a count of another client.
C29_RateLimit ==
    rl_last.client # "none" =>
        LET counted == CountOf(rl_last.before, rl_last.client, rl_last.window)
            class == ClassOf(rl_last.path)
        IN  /\ rl_last.status = 429 <=> counted >= ListedLimit(class, rl_production)
            /\ rl_last.status # 429 =>
                  CountOf(rl_last.after, rl_last.client, rl_last.window) = counted + 1
            /\ (class = "other" /\ counted < 10) => rl_last.status # 429
            /\ rl_last.status = 429 => rl_last.after = rl_last.before
            /\ \A other \in Clients \ {rl_last.client} :
                  /\ other \in DOMAIN rl_last.after <=> other \in DOMAIN rl_last.before
                  /\ other \in DOMAIN rl_last.before =>
                        rl_last.after[other] = rl_last.before[other]

\* A request for an upload in production is answered 429 with 3 requests
\* counted, while the other client has requests counted too.
C29_Witness ==
    /\ rl_last.status = 429
    /\ rl_production
    /\ ClassOf(rl_last.path) = "upload"
    /\ CountOf(rl_last.before, rl_last.client, rl_last.window) = 3
    /\ \E other \in Clients \ {rl_last.client} :
          CountOf(rl_last.before, other, rl_last.window) > 0

=============================================================================
